---- MODULE Spec2Model ----
(***************************************************************************)
(* Event-driven capacity simulation of the AirportCapacityCalculator:      *)
(* the event queue (binary min-heap), the World, the RunwayManager, the    *)
(* policies that generate events and the Engine that integrates capacity.  *)
(*                                                                         *)
(* Time is counted in whole hours since midnight of the first day;         *)
(* durations are converted to seconds where the code does so.  float32 and *)
(* float64 values are modelled as exact rationals [n, d].                  *)
(***************************************************************************)
EXTENDS Integers, Sequences, FiniteSets, TLC

\* ------------------------------------------------------------------ bounds
MaxEvents == 2      \* events scheduled directly through World.ScheduleEvent
MaxDays == 2        \* whole days in the window of a Simulation.Run
MaxTasks == 2       \* tasks that use the queue concurrently
MaxQueue == 4       \* queue length in the stand-alone queue specification
MaxNotifications == 2  \* notifications sent by concurrent callers of the selector

\* ------------------------------------------------------- exact arithmetic
Abs(x) == IF x < 0 THEN -x ELSE x

RECURSIVE GCD(_, _)
GCD(a, b) == IF b = 0 THEN a ELSE GCD(b, a % b)

Rat(n, d) ==
    IF n = 0 THEN [n |-> 0, d |-> 1]
    ELSE LET s == IF d < 0 THEN -1 ELSE 1
             g == GCD(Abs(n), Abs(d))
         IN [n |-> (s * n) \div g, d |-> (s * d) \div g]

RInt(i) == [n |-> i, d |-> 1]
RAdd(a, b) == Rat(a.n * b.d + b.n * a.d, a.d * b.d)
RMul(a, b) == Rat(a.n * b.n, a.d * b.d)
RDiv(a, b) == Rat(a.n * b.d, a.d * b.n)
RLt(a, b) == a.n * b.d < b.n * a.d
RZero == RInt(0)
ROne == RInt(1)

SecondsPerHour == 3600
Seconds(hours) == RInt(hours * SecondsPerHour)

\* ------------------------------------------------------------ the airport
\* Two parallel runways and one crossing runway.
allRunways == <<"09L", "09R", "18">>
RunwayIDs == {allRunways[i] : i \in 1..Len(allRunways)}
UnknownRunway == "27"

MinimumSeparation ==
    [r \in RunwayIDs |-> IF r = "18" THEN 48 ELSE 120]
TrueBearing ==
    [r \in RunwayIDs |-> IF r = "18" THEN 180 ELSE 90]
CrosswindLimitKnots == [r \in RunwayIDs |-> 35]
TailwindLimitKnots == [r \in RunwayIDs |-> 10]

\* 09L and 09R are parallel (compatible), 18 crosses both.
CompatibleWith ==
    [r \in RunwayIDs |->
        IF r = "09L" THEN <<"09R">>
        ELSE IF r = "09R" THEN <<"09L">> ELSE <<>>]

\* graphs that RunwayCompatibility.Validate rejects: 09R does not list 09L
\* back; 09L lists a runway the airport does not have; 18 has no entry
AsymmetricGraph == [CompatibleWith EXCEPT !["09R"] = <<>>]
DanglingGraph == [CompatibleWith EXCEPT !["09L"] = <<"09R", UnknownRunway>>]
MissingEntryGraph == [r \in {"09L", "09R"} |-> CompatibleWith[r]]

\* further graphs that Validate accepts: 09R is compatible with both other
\* runways; all three are compatible; 09L also lists itself
ChainGraph ==
    [r \in RunwayIDs |->
        IF r = "09R" THEN <<"09L", "18">> ELSE <<"09R">>]
CompleteGraph ==
    [r \in RunwayIDs |-> SelectSeq(allRunways, LAMBDA x : x # r)]
SelfLoopGraph == [CompatibleWith EXCEPT !["09L"] = <<"09L", "09R">>]

\* the airport's RunwayCompatibility: "nil" is the absent graph
CompatibilityKinds == {"nil", "graph", "asymmetric", "dangling", "missing"}
GraphOf(rc) ==
    CASE rc = "asymmetric" -> AsymmetricGraph
      [] rc = "dangling" -> DanglingGraph
      [] rc = "missing" -> MissingEntryGraph
      [] rc = "chain" -> ChainGraph
      [] rc = "complete" -> CompleteGraph
      [] rc = "selfloop" -> SelfLoopGraph
      [] OTHER -> CompatibleWith

SeqToSet(s) == {s[i] : i \in 1..Len(s)}

\* A *RunwayCompatibility value: isNil for the nil pointer, mapIsNil for a
\* struct whose CompatibleWith map is nil.
NoMap == [r \in {} |-> <<>>]
NilCompatibility == [isNil |-> TRUE, mapIsNil |-> TRUE, CompatibleWith |-> NoMap]
NewRunwayCompatibility(compatibleWith) ==
    [isNil |-> FALSE, mapIsNil |-> FALSE, CompatibleWith |-> compatibleWith]
NilMapCompatibility ==
    [isNil |-> FALSE, mapIsNil |-> TRUE, CompatibleWith |-> NoMap]
Compatibility(kind) ==
    IF kind = "nil" THEN NilCompatibility
    ELSE NewRunwayCompatibility(GraphOf(kind))

\* rc == nil || rc.CompatibleWith == nil
NoCompatibleWith(rc) == rc.isNil \/ rc.mapIsNil

\* RunwayCompatibility.Validate: TRUE when it returns nil
Validate_NoEntryCheck(rc, runwayIDs) ==
    \/ NoCompatibleWith(rc)
    \/ LET g == rc.CompatibleWith
       IN \A runwayID \in DOMAIN g :
             /\ runwayID \in runwayIDs
             /\ \A compatibleID \in SeqToSet(g[runwayID]) \ {runwayID} :
                   /\ compatibleID \in runwayIDs
                   /\ compatibleID \in DOMAIN g
                   /\ runwayID \in SeqToSet(g[compatibleID])
Validate(rc, runwayIDs) ==
    \/ NoCompatibleWith(rc)
    \/ LET g == rc.CompatibleWith
       IN /\ \A runwayID \in DOMAIN g :
                /\ runwayID \in runwayIDs
                /\ \A compatibleID \in SeqToSet(g[runwayID]) \ {runwayID} :
                      /\ compatibleID \in runwayIDs
                      /\ compatibleID \in DOMAIN g
                      /\ runwayID \in SeqToSet(g[compatibleID])
          /\ \A runwayID \in runwayIDs : runwayID \in DOMAIN g

IsCompatible_NoSelfCheck(rc, runway1, runway2) ==
    IF NoCompatibleWith(rc) THEN TRUE
    ELSE IF runway1 \notin DOMAIN rc.CompatibleWith THEN FALSE
    ELSE runway2 \in SeqToSet(rc.CompatibleWith[runway1])
IsCompatible(rc, runway1, runway2) ==
    IF NoCompatibleWith(rc) THEN TRUE
    ELSE IF runway1 = runway2 THEN TRUE
    ELSE IF runway1 \notin DOMAIN rc.CompatibleWith THEN FALSE
    ELSE runway2 \in SeqToSet(rc.CompatibleWith[runway1])

GetCompatibleRunways(rc, runwayID, allIDs) ==
    IF NoCompatibleWith(rc) THEN SelectSeq(allIDs, LAMBDA x : x # runwayID)
    ELSE IF runwayID \notin DOMAIN rc.CompatibleWith THEN <<>>
    ELSE rc.CompatibleWith[runwayID]

\* ------------------------------------------------------------------ events
NoConfig == [r \in RunwayIDs |-> "None"]

Event(type, time) ==
    [type |-> type, time |-> time, runwayID |-> "", multiplier |-> ROne,
     gate |-> RZero, taxi |-> 0, config |-> NoConfig]

NewCurfewStartEvent(t) == Event("CurfewStart", t)
NewCurfewEndEvent(t) == Event("CurfewEnd", t)
NewRunwayMaintenanceStartEvent(r, t) ==
    [Event("RunwayMaintenanceStart", t) EXCEPT !.runwayID = r]
NewRunwayMaintenanceEndEvent(r, t) ==
    [Event("RunwayMaintenanceEnd", t) EXCEPT !.runwayID = r]
NewRotationChangeEvent(m, t) ==
    [Event("RotationChange", t) EXCEPT !.multiplier = m]
NewGateCapacityConstraintEvent(g, t) ==
    [Event("GateCapacityConstraint", t) EXCEPT !.gate = g]
NewTaxiTimeAdjustmentEvent(o, t) ==
    [Event("TaxiTimeAdjustment", t) EXCEPT !.taxi = o]
NewActiveRunwayConfigurationChangedEvent(c, t) ==
    [Event("ActiveRunwayConfigurationChanged", t) EXCEPT !.config = c]

\* ------------------------------------------------- the queue: a binary heap
\* container/heap over eventHeap, positions counted from 0 as in the code.
At(h, i) == h[i + 1]
Swap(h, i, j) == [h EXCEPT ![i + 1] = h[j + 1], ![j + 1] = h[i + 1]]

Less_Reversed(h, i, j) == At(h, i).time > At(h, j).time
Less(h, i, j) == At(h, i).time < At(h, j).time

RECURSIVE up(_, _)
up(h, j) ==
    LET i == (j - 1) \div 2
    IN IF j = 0 \/ i = j \/ ~Less(h, j, i) THEN h
       ELSE up(Swap(h, i, j), i)

RECURSIVE down(_, _, _)
down(h, i, n) ==
    LET j1 == 2 * i + 1
    IN IF j1 >= n THEN h
       ELSE LET j2 == j1 + 1
                j == IF j2 < n /\ Less(h, j2, j1) THEN j2 ELSE j1
            IN IF ~Less(h, j, i) THEN h
               ELSE down(Swap(h, i, j), j, n)

HeapPush(h, x) == up(Append(h, x), Len(h))

\* heap.Pop: swap the root with the last element, sift down, cut the last.
HeapPopped(h) == At(h, 0)
HeapPop(h) ==
    LET n == Len(h) - 1
        s == down(Swap(h, 0, n), 0, n)
    IN SubSeq(s, 1, n)

HasNext_MoreThanOne(h) == Len(h) > 1
HasNext(h) == Len(h) > 0


\* ------------------------------------------------------------------- state
VARIABLES
    StartTime, EndTime, CurrentTime,   \* World time boundaries (hours)
    Events,                            \* World.Events: the heap
    RunwayStates,                      \* runway id -> Available
    CurfewActive,
    RunwayManager,                     \* the selector's fields
    ActiveRunwayConfiguration,         \* runway id -> direction or "None"
    RotationMultiplier, GateCapacityConstraint, TaxiTimeOverhead,
    pc,                                \* position of Run / processTimeline
    totalCapacity, previousEventTime, eventCount,
    applied,                           \* events applied so far, in order
    windows,                           \* every integrated interval, in order
    skipped,                           \* events skipped as before the window
    policies, policyDay,               \* policy tasks of a Run and their progress
    lastPopped, lastOp,                \* result of the queue's last Pop or Peek, last operation
    schedule,                          \* maintenance policy task -> runway of its schedule
    pending,                           \* policy task -> error its GenerateEvents returned, not yet recorded
    firstErr,                          \* the shared error slot of Run
    errors,                            \* errors in the order they reached the slot
    mu,                                \* EventQueue.mu: the task holding it, or "free"
    local,                             \* queue task -> its operation in progress
    pushed, returned,                  \* event -> completed pushes / pops that returned it
    probe,                             \* the last call on the compatibility graph and its result
    rmMu,                              \* RunwayManager.mu: its writer and its readers
    rmLocal,                           \* selector task -> its call in progress
    completed,                         \* the configurations in force after each whole notification
    held                               \* the configuration map a caller got and keeps

worldVars == <<RunwayStates, CurfewActive, RunwayManager,
               ActiveRunwayConfiguration, RotationMultiplier,
               GateCapacityConstraint, TaxiTimeOverhead>>
vars == <<StartTime, EndTime, CurrentTime, Events, RunwayStates, CurfewActive,
          RunwayManager, ActiveRunwayConfiguration, RotationMultiplier,
          GateCapacityConstraint, TaxiTimeOverhead, pc, totalCapacity,
          previousEventTime, eventCount, applied, windows, skipped,
          policies, policyDay, lastPopped, lastOp, schedule, pending,
          firstErr, errors, mu, local, pushed, returned, probe, rmMu,
          rmLocal, completed, held>>
errVars == <<schedule, pending, firstErr, errors>>
taskVars == <<mu, local, pushed, returned>>
selVars == <<probe, rmMu, rmLocal, completed, held>>

\* ------------------------------------------------------ airport.Runway
RunwayRecord(r) ==
    [RunwayDesignation |-> r,
     TrueBearing |-> TrueBearing[r],
     CrosswindLimitKnots |-> CrosswindLimitKnots[r],
     TailwindLimitKnots |-> TailwindLimitKnots[r],
     MinimumSeparation |-> MinimumSeparation[r]]

\* the runways of the airport of the capacity-based selection test
Runways == [i \in 1..Len(allRunways) |-> RunwayRecord(allRunways[i])]
\* the tie-breaking test: 18 (60 s) has the capacity of 09L and 09R together
TieBreakingRunways == [Runways EXCEPT ![3].MinimumSeparation = 60]
\* runways whose MinimumSeparation was left at its zero value
UnsetSeparationRunways ==
    [i \in 1..Len(Runways) |-> [Runways[i] EXCEPT !.MinimumSeparation = 0]]
\* limits of 0 (no limit): 09L has none, 09R a crosswind limit only, 18 a
\* tailwind limit only
UnlimitedRunways ==
    [i \in 1..Len(Runways) |->
        [Runways[i] EXCEPT
            !.CrosswindLimitKnots = IF i = 2 THEN 10 ELSE 0,
            !.TailwindLimitKnots = IF i = 3 THEN 10 ELSE 0]]
Airports ==
    {Runways, TieBreakingRunways, UnsetSeparationRunways, UnlimitedRunways}

\* ------------------------------------------------------- the RunwayManager
getAvailableRunwayIDs(rm) ==
    {r \in DOMAIN rm.availableRunways : rm.availableRunways[r]}

getAllRunwayIDs(rm) ==
    [i \in 1..Len(rm.allRunways) |-> rm.allRunways[i].RunwayDesignation]

\* findRunwayByID: found, and the runway found
RunwayFound(rm, runwayID) == runwayID \in SeqToSet(getAllRunwayIDs(rm))
findRunwayByID(rm, runwayID) ==
    rm.allRunways[CHOOSE i \in 1..Len(rm.allRunways) :
                     /\ rm.allRunways[i].RunwayDesignation = runwayID
                     /\ \A j \in 1..(i - 1) :
                           rm.allRunways[j].RunwayDesignation # runwayID]

RECURSIVE NormalizeAngle(_)
NormalizeAngle(a) ==
    IF a > 180 THEN NormalizeAngle(a - 360)
    ELSE IF a < -180 THEN NormalizeAngle(a + 360) ELSE a

\* cosine and |sine| of the angles the model uses (multiples of 90 degrees)
Cos(a) == IF a = 0 THEN 1 ELSE IF Abs(a) = 180 THEN -1 ELSE 0
AbsSin(a) == IF Abs(a) = 90 THEN 1 ELSE 0

CalculateWindComponents(runwayBearing, windSpeed, windDirection) ==
    LET angleDiff == NormalizeAngle(windDirection - runwayBearing)
    IN [headwind |-> windSpeed * Cos(angleDiff),
        crosswind |-> windSpeed * AbsSin(angleDiff)]

ReverseBearing(bearing) ==
    IF bearing + 180 >= 360 THEN bearing + 180 - 360 ELSE bearing + 180

DirectionUsable(rm, runway, bearing) ==
    LET w == CalculateWindComponents(bearing, rm.windSpeed, rm.windDirection)
    IN /\ ~(/\ runway.CrosswindLimitKnots > 0
            /\ w.crosswind > runway.CrosswindLimitKnots)
       /\ ~(/\ runway.TailwindLimitKnots > 0
            /\ w.headwind < -runway.TailwindLimitKnots)

isRunwayUsableInEitherDirection_ForwardOnly(rm, runway) ==
    DirectionUsable(rm, runway, runway.TrueBearing)
isRunwayUsableInEitherDirection(rm, runway) ==
    \/ DirectionUsable(rm, runway, runway.TrueBearing)
    \/ DirectionUsable(rm, runway, ReverseBearing(runway.TrueBearing))

filterRunwaysByWind(rm, runwayIDs) ==
    IF rm.windSpeed = 0 THEN runwayIDs
    ELSE {r \in runwayIDs :
            /\ RunwayFound(rm, r)
            /\ LET runway == findRunwayByID(rm, r)
               IN \/ /\ runway.CrosswindLimitKnots = 0
                     /\ runway.TailwindLimitKnots = 0
                  \/ isRunwayUsableInEitherDirection(rm, runway)}

determineRunwayDirection(rm, runway) ==
    IF rm.windSpeed = 0 THEN "Forward"
    ELSE LET forwardUsable == DirectionUsable(rm, runway, runway.TrueBearing)
             reverseUsable ==
                 DirectionUsable(rm, runway,
                                 ReverseBearing(runway.TrueBearing))
             headwindForward ==
                 CalculateWindComponents(runway.TrueBearing, rm.windSpeed,
                                         rm.windDirection).headwind
             headwindReverse ==
                 CalculateWindComponents(ReverseBearing(runway.TrueBearing),
                                         rm.windSpeed,
                                         rm.windDirection).headwind
         IN IF forwardUsable /\ ~reverseUsable THEN "Forward"
            ELSE IF reverseUsable /\ ~forwardUsable THEN "Reverse"
            ELSE IF headwindForward >= headwindReverse THEN "Forward"
            ELSE "Reverse"

\* slices as sequences
intersection(a, b) == SelectSeq(a, LAMBDA x : x \in SeqToSet(b))
isSubset(subset, superset) == SeqToSet(subset) \subseteq superset

RECURSIVE removeElement(_, _)
removeElement(slice, element) ==
    IF slice = <<>> THEN <<>>
    ELSE IF Head(slice) = element THEN Tail(slice)
    ELSE <<Head(slice)>> \o removeElement(Tail(slice), element)

Neighbors(rm, v) ==
    GetCompatibleRunways(rm.compatibility, v, getAllRunwayIDs(rm))

\* A call of bronKerbosch whose R is longer than the inventory holds a
\* runway twice.  Only a runway that is listed as its own neighbour gets
\* there, it is then still a candidate of every deeper call, and the Go
\* recursion never returns: the runtime ends the process with a stack
\* overflow.  StackOverflow in the result stands for that outcome.
StackOverflow == <<"fatal error: stack overflow">>

RECURSIVE bronKerbosch(_, _, _, _), bronKerboschLoop(_, _, _, _, _, _)
bronKerbosch(rm, R, P, X) ==
    IF Len(R) > Len(rm.allRunways) THEN <<StackOverflow>>
    ELSE IF Len(P) = 0 /\ Len(X) = 0 THEN <<R>>
    ELSE bronKerboschLoop(rm, R, P, X, P, 1)
bronKerboschLoop(rm, R, P, X, PCopy, i) ==
    IF i > Len(PCopy) THEN <<>>
    ELSE LET v == PCopy[i]
             neighbors == Neighbors(rm, v)
         IN bronKerbosch(rm, Append(R, v),
                         intersection(P, neighbors),
                         intersection(X, neighbors))
            \o bronKerboschLoop(rm, R, removeElement(P, v),
                                Append(X, v), PCopy, i + 1)

computeMaximalCliques(rm) ==
    IF rm.compatibility.isNil
    THEN [rm EXCEPT !.maximalCliques = <<getAllRunwayIDs(rm)>>,
                    !.maximalCliquesComputed = TRUE]
    ELSE LET result == bronKerbosch(rm, <<>>, getAllRunwayIDs(rm), <<>>)
         IN IF StackOverflow \in SeqToSet(result)
            THEN [rm EXCEPT !.fatal = TRUE]
            ELSE [rm EXCEPT !.maximalCliques = result,
                            !.maximalCliquesComputed = TRUE]

ReferenceDurationSeconds == 3600

RECURSIVE calculateConfigCapacity(_, _)
calculateConfigCapacity(rm, runwayIDs) ==
    IF runwayIDs = <<>> THEN RZero
    ELSE LET r == Head(runwayIDs)
             rest == calculateConfigCapacity(rm, Tail(runwayIDs))
         IN IF /\ RunwayFound(rm, r)
               /\ findRunwayByID(rm, r).MinimumSeparation > 0
            THEN RAdd(Rat(ReferenceDurationSeconds,
                          findRunwayByID(rm, r).MinimumSeparation), rest)
            ELSE rest

\* the condition under which a clique replaces the best one found so far
BetterConfig(capacity, clique, bestCapacity, bestConfig) ==
    \/ RLt(bestCapacity, capacity)
    \/ capacity = bestCapacity /\ Len(clique) < Len(bestConfig)

RECURSIVE selectLoop(_, _, _, _, _, _)
selectLoop(rm, cliques, i, availableIDs, bestConfig, bestCapacity) ==
    IF i > Len(cliques) THEN bestConfig
    ELSE LET clique == cliques[i]
             capacity == calculateConfigCapacity(rm, clique)
         IN IF isSubset(clique, availableIDs)
               /\ BetterConfig(capacity, clique, bestCapacity, bestConfig)
            THEN selectLoop(rm, cliques, i + 1, availableIDs, clique,
                            capacity)
            ELSE selectLoop(rm, cliques, i + 1, availableIDs, bestConfig,
                            bestCapacity)

\* returns the selected runway ids and the manager with its clique cache
selectMaxCapacityConfig(rm, availableIDs) ==
    IF availableIDs = {} THEN [ids |-> {}, rm |-> rm]
    ELSE IF rm.compatibility.isNil THEN [ids |-> availableIDs, rm |-> rm]
    ELSE LET rm1 == IF rm.maximalCliquesComputed THEN rm
                    ELSE computeMaximalCliques(rm)
         IN [ids |-> SeqToSet(selectLoop(rm1, rm1.maximalCliques, 1,
                                         availableIDs, <<>>, RZero)),
             rm |-> rm1]

\* during a curfew no runway operates
CurfewEmptiesConfiguration_Never(rm) == FALSE
CurfewEmptiesConfiguration(rm) == rm.curfewActive

\* the runways that get an entry in the new configuration
Configured_Inventory(rm, ids) == SeqToSet(getAllRunwayIDs(rm))
Configured(rm, ids) == {r \in ids : RunwayFound(rm, r)}

calculateActiveConfiguration(rm) ==
    IF CurfewEmptiesConfiguration(rm)
    THEN [rm EXCEPT !.currentConfiguration = NoConfig]
    ELSE LET availableIDs == getAvailableRunwayIDs(rm)
             windUsableIDs == filterRunwaysByWind(rm, availableIDs)
             sel == selectMaxCapacityConfig(rm, windUsableIDs)
         IN [sel.rm EXCEPT !.currentConfiguration =
                [r \in RunwayIDs |->
                    IF r \in Configured(sel.rm, sel.ids)
                    THEN determineRunwayDirection(rm, findRunwayByID(rm, r))
                    ELSE "None"]]

NewRunwayManager(runways, compatibility) ==
    calculateActiveConfiguration(
        [availableRunways |->
             [r \in {runways[i].RunwayDesignation : i \in 1..Len(runways)}
                 |-> TRUE],
         curfewActive |-> FALSE,
         windSpeed |-> 0,
         windDirection |-> 0,
         allRunways |-> runways,
         currentConfiguration |-> NoConfig,
         compatibility |-> compatibility,
         maximalCliques |-> <<>>,
         maximalCliquesComputed |-> FALSE,
         fatal |-> FALSE])

\* m[k] = v on a Go map: the key is added when it is not there
MapSet(m, k, v) == (k :> v) @@ m

OnRunwayAvailable(rm, runwayID) ==
    calculateActiveConfiguration(
        [rm EXCEPT !.availableRunways = MapSet(@, runwayID, TRUE)])
OnRunwayUnavailable(rm, runwayID) ==
    calculateActiveConfiguration(
        [rm EXCEPT !.availableRunways = MapSet(@, runwayID, FALSE)])
OnCurfewChanged(rm, active) ==
    calculateActiveConfiguration([rm EXCEPT !.curfewActive = active])
OnWindChanged(rm, speedKnots, directionTrue) ==
    calculateActiveConfiguration(
        [rm EXCEPT !.windSpeed = speedKnots, !.windDirection = directionTrue])
GetActiveConfiguration(rm) == rm.currentConfiguration

ActiveIDs(config) == {r \in RunwayIDs : config[r] # "None"}


\* ---------------------------------------------------------------- the World
\* World.ScheduleEvent -> EventQueue.Push
Push(queue, evt) == HeapPush(queue, evt)

\* the timestamp a notify operation gives the follow-up event
FollowUpTime_Earlier(timestamp) == timestamp - 1
FollowUpTime(timestamp) == timestamp

\* the World setters: the error returned and the value the field has
\* afterwards.  SetRunwayAvailable fails for a runway id that is not in
\* RunwayStates; the two other setters fail on a negative value
SetterResult(err, value) == [err |-> err, value |-> value]
SetRunwayAvailable(states, runwayID, available) ==
    IF runwayID \notin DOMAIN states THEN SetterResult(TRUE, states)
    ELSE SetterResult(FALSE, [states EXCEPT ![runwayID] = available])
SetGateCapacityConstraint_StoresFirst(current, maxMovementsPerSecond) ==
    SetterResult(RLt(maxMovementsPerSecond, RZero), maxMovementsPerSecond)
SetGateCapacityConstraint(current, maxMovementsPerSecond) ==
    IF RLt(maxMovementsPerSecond, RZero) THEN SetterResult(TRUE, current)
    ELSE SetterResult(FALSE, maxMovementsPerSecond)
SetTaxiTimeOverhead(current, overhead) ==
    IF overhead < 0 THEN SetterResult(TRUE, current)
    ELSE SetterResult(FALSE, overhead)
\* SetRotationMultiplier and SetCurfewActive store what they are given
SetRotationMultiplier(current, multiplier) == SetterResult(FALSE, multiplier)
SetCurfewActive(current, active) == SetterResult(FALSE, active)

ApplyFails_Never(evt) == FALSE
ApplyFails(evt) ==
    \/ /\ evt.type \in {"RunwayMaintenanceStart", "RunwayMaintenanceEnd"}
       /\ SetRunwayAvailable(RunwayStates, evt.runwayID,
                             evt.type = "RunwayMaintenanceEnd").err
    \/ /\ evt.type = "GateCapacityConstraint"
       /\ SetGateCapacityConstraint(GateCapacityConstraint, evt.gate).err
    \/ /\ evt.type = "TaxiTimeAdjustment"
       /\ SetTaxiTimeOverhead(TaxiTimeOverhead, evt.taxi).err

\* NotifyRunwayAvailabilityChange: notify the manager, then schedule the
\* configuration-changed event carrying the manager's new configuration
NotifyRunwayAvailabilityChange_StaleSnapshot(queue, runwayID, available, timestamp) ==
    /\ RunwayManager' = IF available
                         THEN OnRunwayAvailable(RunwayManager, runwayID)
                         ELSE OnRunwayUnavailable(RunwayManager, runwayID)
    /\ Events' = Push(queue,
           NewActiveRunwayConfigurationChangedEvent(
               GetActiveConfiguration(RunwayManager), FollowUpTime(timestamp)))
NotifyRunwayAvailabilityChange(queue, runwayID, available, timestamp) ==
    LET rm1 == IF available THEN OnRunwayAvailable(RunwayManager, runwayID)
               ELSE OnRunwayUnavailable(RunwayManager, runwayID)
    IN /\ RunwayManager' = rm1
       /\ Events' = Push(queue,
              NewActiveRunwayConfigurationChangedEvent(
                  GetActiveConfiguration(rm1), FollowUpTime(timestamp)))

NotifyCurfewChange_StaleSnapshot(queue, active, timestamp) ==
    /\ RunwayManager' = OnCurfewChanged(RunwayManager, active)
    /\ Events' = Push(queue,
           NewActiveRunwayConfigurationChangedEvent(
               GetActiveConfiguration(RunwayManager), FollowUpTime(timestamp)))
NotifyCurfewChange(queue, active, timestamp) ==
    LET rm1 == OnCurfewChanged(RunwayManager, active)
    IN /\ RunwayManager' = rm1
       /\ Events' = Push(queue,
              NewActiveRunwayConfigurationChangedEvent(
                  GetActiveConfiguration(rm1), FollowUpTime(timestamp)))

\* ---------------------------------------------------------------- the Engine
\* the World fields a window integration reads
WorldSnapshot ==
    [curfew |-> CurfewActive,
     available |-> RunwayStates,
     config |-> ActiveIDs(ActiveRunwayConfiguration),
     rotation |-> RotationMultiplier,
     gate |-> GateCapacityConstraint,
     taxi |-> TaxiTimeOverhead]

\* the runways whose throughput a window counts
CountedRunways(w) == {r \in RunwayIDs : w.available[r]}

RECURSIVE SumRunwayCapacity(_, _, _)
SumRunwayCapacity(w, ids, durationSeconds) ==
    IF ids = <<>> THEN RZero
    ELSE LET rest == SumRunwayCapacity(w, Tail(ids), durationSeconds)
         IN IF Head(ids) \in CountedRunways(w)
            THEN RAdd(RDiv(durationSeconds,
                           RInt(MinimumSeparation[Head(ids)])), rest)
            ELSE rest

\* movements per second the gates allow, after the taxi overhead
EffectiveGateConstraint(w) ==
    IF w.taxi > 0
    THEN RDiv(ROne, RAdd(RDiv(ROne, w.gate), RInt(w.taxi)))
    ELSE w.gate

CurfewBlocks_Never(w) == FALSE
CurfewBlocks(w) == w.curfew

calculateWindowCapacity(w, duration) ==
    IF CurfewBlocks(w) THEN RZero
    ELSE LET durationSeconds == Seconds(duration)
             capacity ==
                 RMul(SumRunwayCapacity(w, allRunways, durationSeconds),
                      w.rotation)
         IN IF RLt(RZero, w.gate)
            THEN LET gateConstrainedCapacity ==
                         RMul(EffectiveGateConstraint(w), durationSeconds)
                 IN IF RLt(gateConstrainedCapacity, capacity)
                    THEN gateConstrainedCapacity ELSE capacity
            ELSE capacity

IsBeforeStart_Never(eventTime) == FALSE
IsBeforeStart(eventTime) == eventTime < StartTime

IsAfterEnd_OneLate(eventTime) == eventTime > EndTime + 1
IsAfterEnd(eventTime) == eventTime > EndTime

\* the World fields after evt has been applied to w
EffectOf(evt, w) ==
    [w EXCEPT
        !.curfew = IF evt.type = "CurfewStart" THEN TRUE
                   ELSE IF evt.type = "CurfewEnd" THEN FALSE ELSE @,
        !.available =
            IF evt.type = "RunwayMaintenanceStart"
            THEN [@ EXCEPT ![evt.runwayID] = FALSE]
            ELSE IF evt.type = "RunwayMaintenanceEnd"
            THEN [@ EXCEPT ![evt.runwayID] = TRUE] ELSE @,
        !.rotation = IF evt.type = "RotationChange" THEN evt.multiplier
                     ELSE @,
        !.gate = IF evt.type = "GateCapacityConstraint" THEN evt.gate ELSE @,
        !.taxi = IF evt.type = "TaxiTimeAdjustment" THEN evt.taxi ELSE @]

\* the World state the window before evt is integrated with: the loop
\* integrates before it applies the event
IntegrationState_PostEvent(evt) == EffectOf(evt, WorldSnapshot)
IntegrationState(evt) == WorldSnapshot

\* one integrated interval: what it saw and what it added
WindowRecord(w, from, to) ==
    [start |-> from, end |-> to, world |-> w,
     capacity |-> calculateWindowCapacity(w, to - from)]

\* the part of a loop iteration that all applied events share
Integrate(evt) ==
    LET win == WindowRecord(IntegrationState(evt), previousEventTime,
                            evt.time)
    IN /\ totalCapacity' = RAdd(totalCapacity, win.capacity)
       /\ windows' = Append(windows, win)
       /\ applied' = Append(applied, evt)
       /\ CurrentTime' = evt.time
       /\ previousEventTime' = evt.time
       /\ eventCount' = eventCount + 1

Applies(evt, type) ==
    /\ pc = "loop"
    /\ HasNext(Events)
    /\ evt.type = type
    /\ ~IsBeforeStart(evt.time)
    /\ ~IsAfterEnd(evt.time)
    /\ ~ApplyFails(evt)

runVars == <<StartTime, EndTime, policies, policyDay, lastPopped, lastOp>>

SkipEventBeforeStart ==
    /\ pc = "loop"
    /\ HasNext(Events)
    /\ IsBeforeStart(HeapPopped(Events).time)
    /\ Events' = HeapPop(Events)
    /\ skipped' = skipped + 1
    /\ UNCHANGED <<selVars, errVars, taskVars, worldVars, runVars, CurrentTime, pc, totalCapacity,
                   previousEventTime, eventCount, applied, windows>>

TruncateAfterEnd ==
    /\ pc = "loop"
    /\ HasNext(Events)
    /\ ~IsBeforeStart(HeapPopped(Events).time)
    /\ IsAfterEnd(HeapPopped(Events).time)
    /\ Events' = HeapPop(Events)
    /\ previousEventTime' = EndTime
    /\ pc' = "final"
    /\ UNCHANGED <<skipped, selVars, errVars, taskVars, worldVars, runVars, CurrentTime, totalCapacity, eventCount,
                   applied, windows>>

ApplyCurfewStartEvent ==
    LET evt == HeapPopped(Events)
    IN /\ Applies(evt, "CurfewStart")
       /\ Integrate(evt)
       /\ CurfewActive' = SetCurfewActive(CurfewActive, TRUE).value
       /\ NotifyCurfewChange(HeapPop(Events), TRUE, evt.time)
       /\ UNCHANGED <<skipped, selVars, errVars, taskVars, runVars, pc, RunwayStates, ActiveRunwayConfiguration,
                      RotationMultiplier, GateCapacityConstraint,
                      TaxiTimeOverhead>>

ApplyCurfewEndEvent ==
    LET evt == HeapPopped(Events)
    IN /\ Applies(evt, "CurfewEnd")
       /\ Integrate(evt)
       /\ CurfewActive' = SetCurfewActive(CurfewActive, FALSE).value
       /\ NotifyCurfewChange(HeapPop(Events), FALSE, evt.time)
       /\ UNCHANGED <<skipped, selVars, errVars, taskVars, runVars, pc, RunwayStates, ActiveRunwayConfiguration,
                      RotationMultiplier, GateCapacityConstraint,
                      TaxiTimeOverhead>>

ApplyRunwayMaintenanceStartEvent ==
    LET evt == HeapPopped(Events)
    IN /\ Applies(evt, "RunwayMaintenanceStart")
       /\ Integrate(evt)
       /\ RunwayStates' =
              SetRunwayAvailable(RunwayStates, evt.runwayID, FALSE).value
       /\ NotifyRunwayAvailabilityChange(HeapPop(Events), evt.runwayID,
                                         FALSE, evt.time)
       /\ UNCHANGED <<skipped, selVars, errVars, taskVars, runVars, pc, CurfewActive, ActiveRunwayConfiguration,
                      RotationMultiplier, GateCapacityConstraint,
                      TaxiTimeOverhead>>

ApplyRunwayMaintenanceEndEvent ==
    LET evt == HeapPopped(Events)
    IN /\ Applies(evt, "RunwayMaintenanceEnd")
       /\ Integrate(evt)
       /\ RunwayStates' =
              SetRunwayAvailable(RunwayStates, evt.runwayID, TRUE).value
       /\ NotifyRunwayAvailabilityChange(HeapPop(Events), evt.runwayID,
                                         TRUE, evt.time)
       /\ UNCHANGED <<skipped, selVars, errVars, taskVars, runVars, pc, CurfewActive, ActiveRunwayConfiguration,
                      RotationMultiplier, GateCapacityConstraint,
                      TaxiTimeOverhead>>

ApplyRotationChangeEvent ==
    LET evt == HeapPopped(Events)
    IN /\ Applies(evt, "RotationChange")
       /\ Integrate(evt)
       /\ RotationMultiplier' =
              SetRotationMultiplier(RotationMultiplier, evt.multiplier).value
       /\ Events' = HeapPop(Events)
       /\ UNCHANGED <<skipped, selVars, errVars, taskVars, runVars, pc, RunwayStates, CurfewActive, RunwayManager,
                      ActiveRunwayConfiguration, GateCapacityConstraint,
                      TaxiTimeOverhead>>

ApplyGateCapacityConstraintEvent ==
    LET evt == HeapPopped(Events)
    IN /\ Applies(evt, "GateCapacityConstraint")
       /\ Integrate(evt)
       /\ GateCapacityConstraint' =
              SetGateCapacityConstraint(GateCapacityConstraint,
                                        evt.gate).value
       /\ Events' = HeapPop(Events)
       /\ UNCHANGED <<skipped, selVars, errVars, taskVars, runVars, pc, RunwayStates, CurfewActive, RunwayManager,
                      ActiveRunwayConfiguration, RotationMultiplier,
                      TaxiTimeOverhead>>

ApplyTaxiTimeAdjustmentEvent ==
    LET evt == HeapPopped(Events)
    IN /\ Applies(evt, "TaxiTimeAdjustment")
       /\ Integrate(evt)
       /\ TaxiTimeOverhead' =
              SetTaxiTimeOverhead(TaxiTimeOverhead, evt.taxi).value
       /\ Events' = HeapPop(Events)
       /\ UNCHANGED <<skipped, selVars, errVars, taskVars, runVars, pc, RunwayStates, CurfewActive, RunwayManager,
                      ActiveRunwayConfiguration, RotationMultiplier,
                      GateCapacityConstraint>>

\* World.SetActiveRunwayConfiguration stores a copy of the configuration;
\* it notifies nobody, so the queue stays as the pop left it
SetActiveRunwayConfiguration_Notifies(queue, config, timestamp) ==
    /\ ActiveRunwayConfiguration' = config
    /\ Events' = Push(queue,
           NewActiveRunwayConfigurationChangedEvent(
               GetActiveConfiguration(RunwayManager), timestamp))
SetActiveRunwayConfiguration(queue, config, timestamp) ==
    /\ ActiveRunwayConfiguration' = config
    /\ Events' = queue

\* the follow-up event stores its snapshot as the World's configuration
ApplyActiveRunwayConfigurationChangedEvent ==
    LET evt == HeapPopped(Events)
    IN /\ Applies(evt, "ActiveRunwayConfigurationChanged")
       /\ Integrate(evt)
       /\ SetActiveRunwayConfiguration(HeapPop(Events), evt.config, evt.time)
       /\ UNCHANGED <<skipped, selVars, errVars, taskVars, runVars, pc, RunwayStates, CurfewActive, RunwayManager,
                      RotationMultiplier, GateCapacityConstraint,
                      TaxiTimeOverhead>>

\* Apply returned an error: processTimeline returns 0 and the error.  The
\* window before the event was integrated, the event changed nothing.
ApplyFailed ==
    LET evt == HeapPopped(Events)
    IN /\ pc = "loop"
       /\ HasNext(Events)
       /\ ~IsBeforeStart(evt.time)
       /\ ~IsAfterEnd(evt.time)
       /\ ApplyFails(evt)
       /\ Events' = HeapPop(Events)
       /\ windows' = Append(windows,
                            WindowRecord(IntegrationState(evt),
                                         previousEventTime, evt.time))
       /\ totalCapacity' = RZero
       /\ pc' = "error"
       /\ RunwayStates' =
              IF evt.type \in {"RunwayMaintenanceStart",
                               "RunwayMaintenanceEnd"}
              THEN SetRunwayAvailable(RunwayStates, evt.runwayID,
                                      evt.type = "RunwayMaintenanceEnd").value
              ELSE RunwayStates
       /\ GateCapacityConstraint' =
              IF evt.type = "GateCapacityConstraint"
              THEN SetGateCapacityConstraint(GateCapacityConstraint,
                                             evt.gate).value
              ELSE GateCapacityConstraint
       /\ TaxiTimeOverhead' =
              IF evt.type = "TaxiTimeAdjustment"
              THEN SetTaxiTimeOverhead(TaxiTimeOverhead, evt.taxi).value
              ELSE TaxiTimeOverhead
       /\ UNCHANGED <<skipped, selVars, errVars, taskVars, runVars,
                      CurfewActive, RunwayManager, ActiveRunwayConfiguration,
                      RotationMultiplier, CurrentTime, previousEventTime,
                      eventCount, applied>>

\* the loop has ended: integrate what is left of the window and return
FinalWindow ==
    /\ \/ pc = "final"
       \/ pc = "loop" /\ ~HasNext(Events)
    /\ IF previousEventTime < EndTime
       THEN LET win == WindowRecord(WorldSnapshot, previousEventTime, EndTime)
            IN /\ totalCapacity' = RAdd(totalCapacity, win.capacity)
               /\ windows' = Append(windows, win)
       ELSE UNCHANGED <<totalCapacity, windows>>
    /\ pc' = "done"
    /\ UNCHANGED <<skipped, selVars, errVars, taskVars, worldVars, runVars, CurrentTime, Events,
                   previousEventTime, eventCount, applied>>

\* ------------------------------------------------- scheduling and policies
DayHours == 24

Nil == Event("nil", 0)

NewWorld(startTime, endTime, runways, compatibility) ==
    /\ StartTime = startTime
    /\ EndTime = endTime
    /\ CurrentTime = startTime
    /\ Events = <<>>
    /\ RunwayStates = [r \in RunwayIDs |-> TRUE]
    /\ CurfewActive = FALSE
    /\ RotationMultiplier = ROne
    /\ GateCapacityConstraint = RZero
    /\ TaxiTimeOverhead = 0
    /\ RunwayManager = NewRunwayManager(runways, compatibility)
    /\ ActiveRunwayConfiguration =
           GetActiveConfiguration(NewRunwayManager(runways, compatibility))

PolicyNames == {"CurfewPolicy", "GateCapacityPolicy", "TaxiTimePolicy"}

\* error values: the policy task whose GenerateEvents returned the error
\* and the runway id it names
NoError == [policy |-> "", runway |-> ""]
RunwayNotFound(p, r) == [policy |-> p, runway |-> r]

\* two IntelligentMaintenancePolicy instances can be added to a Simulation
MaintenanceTasks ==
    {"IntelligentMaintenancePolicy", "IntelligentMaintenancePolicy#2"}
\* AddPolicy appends: a policy of a kind already added is one more task
SecondGateCapacityPolicy == "GateCapacityPolicy (second)"
PolicyTasks ==
    PolicyNames \cup MaintenanceTasks
    \cup {"WindPolicy", SecondGateCapacityPolicy}

EngineIdle ==
    /\ totalCapacity = RZero
    /\ previousEventTime = StartTime
    /\ eventCount = 0
    /\ applied = <<>>
    /\ windows = <<>>
    /\ skipped = 0
    /\ policyDay = [p \in PolicyTasks |-> 0]
    /\ lastPopped = Nil
    /\ lastOp = "none"

\* values the directly scheduled events carry
NoiseOptimizedEfficiency == Rat(4, 5)       \* rotation multiplier 0.80
GateRate == Rat(1, 40)                      \* 90 movements per hour
TaxiOverheadSeconds == 600

\* values no constructor or setter input is checked against
NegativeGateRate == Rat(-1, 40)
NegativeTaxiOverhead == 0 - TaxiOverheadSeconds
ExcessMultiplier == Rat(3, 2)
NegativeMultiplier == Rat(-1, 2)

EventTimes == {StartTime - 1, StartTime, StartTime + 1, EndTime, EndTime + 1}

CandidateEvents ==
    UNION {{NewCurfewStartEvent(t), NewCurfewEndEvent(t),
            NewRunwayMaintenanceStartEvent("18", t),
            NewRunwayMaintenanceEndEvent("18", t),
            NewRotationChangeEvent(NoiseOptimizedEfficiency, t),
            NewGateCapacityConstraintEvent(GateRate, t),
            NewTaxiTimeAdjustmentEvent(TaxiOverheadSeconds, t)}
           : t \in EventTimes}
    \cup {NewRunwayMaintenanceStartEvent(UnknownRunway, StartTime + 1),
          NewGateCapacityConstraintEvent(NegativeGateRate, StartTime + 1),
          NewTaxiTimeAdjustmentEvent(NegativeTaxiOverhead, StartTime + 1),
          NewRotationChangeEvent(ExcessMultiplier, StartTime + 1),
          NewRotationChangeEvent(NegativeMultiplier, StartTime + 1)}

\* a caller schedules an event before the Engine runs
ScheduleEvent ==
    /\ pc = "generate"
    /\ policies = {}
    /\ Len(Events) < MaxEvents
    /\ \E evt \in CandidateEvents : Events' = Push(Events, evt)
    /\ UNCHANGED <<skipped, selVars, errVars, taskVars, worldVars, runVars, CurrentTime, pc, totalCapacity,
                   previousEventTime, eventCount, applied, windows>>

\* CurfewPolicy of the nightly 23:00-06:00 curfew
CurfewStartHour == 23
CurfewEndHour == 6

\* IntelligentMaintenanceSchedule: RunwayDesignations drawn from Schedules,
\* two hours of maintenance once a day, no curfew and no peak hours
Schedules == {<<"18">>, <<"09L", "18">>, <<"18", UnknownRunway>>,
              <<UnknownRunway>>}
MaintenanceDuration == 2
MaintenanceFrequency == 24

\* the designations that are not among the airport's runways, in order
MissingRunways_None(designations) == <<>>
MissingRunways(designations) ==
    SelectSeq(designations, LAMBDA r : r \notin RunwayIDs)

\* the maintenance windows in the order GenerateEvents schedules them; with
\* no curfew and no peak hours findOptimalWindow returns the start it was
\* given, or the zero time that the caller replaces by that same start
RECURSIVE MaintenanceWindowsFrom(_, _, _)
MaintenanceWindowsFrom(designations, runwayIdx, i) ==
    LET n == Len(designations)
        cycles == (EndTime - StartTime) \div MaintenanceFrequency
        maintenanceWindows == IF cycles = 0 THEN 1 ELSE cycles
        offset == (runwayIdx - 1) * (MaintenanceFrequency \div n)
        maintenanceStart == StartTime + offset + i * MaintenanceFrequency
    IN IF runwayIdx > n THEN <<>>
       ELSE IF i >= maintenanceWindows
               \/ maintenanceStart + MaintenanceDuration > EndTime
       THEN MaintenanceWindowsFrom(designations, runwayIdx + 1, 0)
       ELSE <<[RunwayID |-> designations[runwayIdx],
               Start |-> maintenanceStart,
               End |-> maintenanceStart + MaintenanceDuration]>>
            \o MaintenanceWindowsFrom(designations, runwayIdx, i + 1)

MaintenanceWindows(designations) ==
    MaintenanceWindowsFrom(designations, 1, 0)

\* the task of policy p has returned from GenerateEvents and, when that
\* failed, has put its error into the shared slot
PolicyDone(p) ==
    IF p = "CurfewPolicy"
    THEN ~(StartTime + DayHours * policyDay[p] < EndTime)
    ELSE IF p \in MaintenanceTasks
    THEN /\ policyDay[p] > Len(MaintenanceWindows(schedule[p]))
         /\ pending[p] = NoError
    ELSE policyDay[p] = 1

\* the curfew start of the day that begins at midnight
CurfewStartOf_Midnight(midnight) == midnight
CurfewStartOf(midnight) == midnight + CurfewStartHour

\* one iteration of the day loop of CurfewPolicy.GenerateEvents
CurfewPolicyGenerateEvents ==
    LET currentDate == StartTime + DayHours * policyDay["CurfewPolicy"]
        midnight == currentDate - (currentDate % DayHours)
        curfewStart == CurfewStartOf(midnight)
        curfewEnd == midnight + CurfewEndHour
                     + (IF CurfewEndHour < CurfewStartHour THEN DayHours
                        ELSE 0)
        q1 == IF ~(curfewStart < StartTime) /\ ~(curfewStart > EndTime)
              THEN Push(Events, NewCurfewStartEvent(curfewStart))
              ELSE Events
        q2 == IF ~(curfewEnd < StartTime) /\ ~(curfewEnd > EndTime)
              THEN Push(q1, NewCurfewEndEvent(curfewEnd))
              ELSE q1
    IN /\ pc = "generate"
       /\ "CurfewPolicy" \in policies
       /\ currentDate < EndTime
       /\ Events' = q2
       /\ policyDay' = [policyDay EXCEPT !["CurfewPolicy"] = @ + 1]
       /\ UNCHANGED <<skipped, selVars, errVars, taskVars, worldVars, StartTime, EndTime, policies, lastPopped,
                      lastOp, CurrentTime, pc, totalCapacity,
                      previousEventTime, eventCount, applied, windows>>

\* GateCapacityPolicy: 5 gates, one hour of turnaround
TotalGates == 5
AverageTurnaroundHours == 1

GateConstrainedMovementsPerSecond ==
    RDiv(RMul(Rat(TotalGates, AverageTurnaroundHours), RInt(2)), RInt(3600))

GateCapacityPolicyGenerateEvents ==
    /\ pc = "generate"
    /\ "GateCapacityPolicy" \in policies
    /\ policyDay["GateCapacityPolicy"] = 0
    /\ Events' = Push(Events,
           NewGateCapacityConstraintEvent(GateConstrainedMovementsPerSecond,
                                          StartTime))
    /\ policyDay' = [policyDay EXCEPT !["GateCapacityPolicy"] = 1]
    /\ UNCHANGED <<skipped, selVars, errVars, taskVars, worldVars, StartTime, EndTime, policies, lastPopped,
                   lastOp, CurrentTime, pc, totalCapacity,
                   previousEventTime, eventCount, applied, windows>>

\* a second GateCapacityPolicy, added with twice the gates of the first
SecondTotalGates == TotalGates + TotalGates
SecondGateConstrainedMovementsPerSecond ==
    RDiv(RMul(Rat(SecondTotalGates, AverageTurnaroundHours), RInt(2)),
         RInt(3600))

SecondGateCapacityPolicyGenerateEvents ==
    /\ pc = "generate"
    /\ SecondGateCapacityPolicy \in policies
    /\ policyDay[SecondGateCapacityPolicy] = 0
    /\ Events' = Push(Events,
           NewGateCapacityConstraintEvent(
               SecondGateConstrainedMovementsPerSecond, StartTime))
    /\ policyDay' = [policyDay EXCEPT ![SecondGateCapacityPolicy] = 1]
    /\ UNCHANGED <<skipped, selVars, errVars, taskVars, worldVars, StartTime, EndTime, policies, lastPopped,
                   lastOp, CurrentTime, pc, totalCapacity,
                   previousEventTime, eventCount, applied, windows>>

TaxiTimePolicyGenerateEvents ==
    /\ pc = "generate"
    /\ "TaxiTimePolicy" \in policies
    /\ policyDay["TaxiTimePolicy"] = 0
    /\ Events' = Push(Events,
           NewTaxiTimeAdjustmentEvent(TaxiOverheadSeconds, StartTime))
    /\ policyDay' = [policyDay EXCEPT !["TaxiTimePolicy"] = 1]
    /\ UNCHANGED <<skipped, selVars, errVars, taskVars, worldVars, StartTime, EndTime, policies, lastPopped,
                   lastOp, CurrentTime, pc, totalCapacity,
                   previousEventTime, eventCount, applied, windows>>

\* IntelligentMaintenancePolicy.GenerateEvents: first the check of every
\* designation, then one maintenance window per step
IntelligentMaintenancePolicyGenerateEvents ==
    \E p \in MaintenanceTasks :
        LET designations == schedule[p]
            missing == MissingRunways(designations)
            wins == MaintenanceWindows(designations)
            k == policyDay[p]
        IN /\ pc = "generate"
           /\ p \in policies
           /\ k <= Len(wins)
           /\ IF k = 0
              THEN IF missing # <<>>
                   THEN /\ pending' = [pending EXCEPT
                               ![p] = RunwayNotFound(p, Head(missing))]
                        /\ policyDay' = [policyDay EXCEPT
                               ![p] = Len(wins) + 1]
                        /\ Events' = Events
                   ELSE /\ policyDay' = [policyDay EXCEPT ![p] = 1]
                        /\ UNCHANGED <<pending, Events>>
              ELSE /\ Events' =
                        Push(Push(Events,
                                  NewRunwayMaintenanceStartEvent(
                                      wins[k].RunwayID, wins[k].Start)),
                             NewRunwayMaintenanceEndEvent(
                                 wins[k].RunwayID, wins[k].End))
                   /\ policyDay' = [policyDay EXCEPT ![p] = k + 1]
                   /\ pending' = pending
           /\ UNCHANGED <<skipped, selVars, taskVars, worldVars, StartTime, EndTime,
                          policies, lastPopped, lastOp, schedule, firstErr,
                          errors, CurrentTime, pc, totalCapacity,
                          previousEventTime, eventCount, applied, windows>>

\* the static wind of the WindPolicy
WindSpeedKnots == 40
WindDirectionTrue == 90

\* World.SetWind delegates to the selector's wind notification
SetWind(speedKnots, directionTrue) ==
    RunwayManager' = OnWindChanged(RunwayManager, speedKnots, directionTrue)

\* WindPolicy.GenerateEvents sets the wind in the World and schedules no
\* event
WindPolicyGenerateEvents ==
    /\ pc = "generate"
    /\ "WindPolicy" \in policies
    /\ policyDay["WindPolicy"] = 0
    /\ SetWind(WindSpeedKnots, WindDirectionTrue)
    /\ policyDay' = [policyDay EXCEPT !["WindPolicy"] = 1]
    /\ UNCHANGED <<skipped, selVars, errVars, taskVars, RunwayStates, CurfewActive,
                   ActiveRunwayConfiguration, RotationMultiplier,
                   GateCapacityConstraint, TaxiTimeOverhead, StartTime,
                   EndTime, policies, lastPopped, lastOp, CurrentTime, pc,
                   Events, totalCapacity, previousEventTime, eventCount,
                   applied, windows>>

\* the shared slot after a task has offered err to it: first error only
SlotAfter_LastWins(slot, err) == err
SlotAfter(slot, err) == IF slot = NoError THEN err ELSE slot

\* a failed policy task records its error under errMu
RecordError ==
    \E p \in policies :
        /\ pc = "generate"
        /\ pending[p] # NoError
        /\ firstErr' = SlotAfter(firstErr, pending[p])
        /\ errors' = Append(errors, pending[p])
        /\ pending' = [pending EXCEPT ![p] = NoError]
        /\ UNCHANGED <<skipped, selVars, taskVars, worldVars, StartTime, EndTime,
                       policies, policyDay, lastPopped, lastOp, schedule,
                       CurrentTime, pc, Events, totalCapacity,
                       previousEventTime, eventCount, applied, windows>>

\* wg.Wait: every policy task has finished
Joined_UntilFirstError ==
    (\A p \in policies : PolicyDone(p)) \/ firstErr # NoError
Joined == \A p \in policies : PolicyDone(p)

\* the check of the shared slot after the join
RunFails_Never == FALSE
RunFails == firstErr # NoError

\* Run returns 0 and the first error without calling the Engine
ReturnFirstErr ==
    /\ pc = "generate"
    /\ Joined
    /\ RunFails
    /\ pc' = "failed"
    /\ totalCapacity' = RZero
    /\ UNCHANGED <<skipped, selVars, errVars, taskVars, worldVars, runVars,
                   CurrentTime, Events, previousEventTime, eventCount,
                   applied, windows>>

\* Run has joined every policy task (or the caller has finished scheduling):
\* the Engine starts processTimeline
Calculate ==
    /\ pc = "generate"
    /\ Joined
    /\ ~RunFails
    /\ pc' = "loop"
    /\ totalCapacity' = RZero
    /\ previousEventTime' = StartTime
    /\ UNCHANGED <<skipped, selVars, errVars, taskVars, worldVars, runVars, CurrentTime, Events, eventCount,
                   applied, windows>>

\* ------------------------------------------------- the queue on its own
QueueTimes == 0..2
QueueEvents ==
    {NewCurfewStartEvent(t) : t \in QueueTimes}
    \cup {NewCurfewEndEvent(t) : t \in QueueTimes}

QueuePush ==
    /\ pc = "queue"
    /\ Len(Events) < MaxQueue
    /\ \E evt \in QueueEvents : Events' = Push(Events, evt)
    /\ lastOp' = "push"
    /\ UNCHANGED <<skipped, selVars, errVars, taskVars, worldVars, StartTime, EndTime, policies, policyDay,
                   lastPopped, CurrentTime, pc, totalCapacity,
                   previousEventTime, eventCount, applied, windows>>

\* EventQueue.Pop: nil on an empty queue, else the root of the heap
QueuePop ==
    /\ pc = "queue"
    /\ IF Len(Events) = 0
       THEN lastPopped' = Nil /\ Events' = Events
       ELSE lastPopped' = HeapPopped(Events) /\ Events' = HeapPop(Events)
    /\ lastOp' = "pop"
    /\ UNCHANGED <<skipped, selVars, errVars, taskVars, worldVars, StartTime, EndTime, policies, policyDay,
                   CurrentTime, pc, totalCapacity, previousEventTime,
                   eventCount, applied, windows>>

\* the event Peek returns from a non-empty heap: its root
Peeked_Last(h) == At(h, Len(h) - 1)
Peeked(h) == At(h, 0)

\* EventQueue.Peek: nil on an empty queue, else the root, nothing removed
QueuePeek ==
    /\ pc = "queue"
    /\ lastPopped' = IF Len(Events) = 0 THEN Nil ELSE Peeked(Events)
    /\ lastOp' = "peek"
    /\ UNCHANGED <<skipped, selVars, errVars, taskVars, worldVars, StartTime, EndTime,
                   policies, policyDay, Events, CurrentTime, pc,
                   totalCapacity, previousEventTime, eventCount, applied,
                   windows>>

\* ------------------------------------- the queue under concurrent tasks
\* Every EventQueue method locks q.mu, works on q.items and unlocks on
\* return.  A task's operation takes two steps: it locks and loads q.items,
\* then it stores the result, unlocks and returns.
QueueTasks == 1..MaxTasks
TaskEvents == {NewCurfewStartEvent(t) : t \in QueueTimes}
Idle == [op |-> "idle", evt |-> Nil, items |-> <<>>]

RECURSIVE SumOver(_, _)
SumOver(f, S) ==
    IF S = {} THEN 0
    ELSE LET x == CHOOSE y \in S : TRUE IN f[x] + SumOver(f, S \ {x})

\* q.mu.Lock() returns only while no other task holds the lock
LockFree_Always(m) == TRUE
LockFree(m) == m = 0

Pushing == {t \in QueueTasks : local[t].op = "Push"}

TaskLock ==
    \E t \in QueueTasks :
        /\ pc = "tasks"
        /\ local[t].op = "idle"
        /\ LockFree(mu)
        /\ mu' = t
        /\ \/ \E evt \in TaskEvents :
                 /\ SumOver(pushed, QueueEvents) + Cardinality(Pushing)
                        < MaxQueue
                 /\ local' = [local EXCEPT ![t] =
                        [op |-> "Push", evt |-> evt, items |-> Events]]
           \/ \E op \in {"Pop", "Peek"} :
                 local' = [local EXCEPT ![t] =
                     [op |-> op, evt |-> Nil, items |-> Events]]
        /\ UNCHANGED <<skipped, selVars, errVars, worldVars, StartTime, EndTime,
                       policies, policyDay, lastPopped, lastOp, pushed,
                       returned, CurrentTime, pc, Events, totalCapacity,
                       previousEventTime, eventCount, applied, windows>>

\* EventQueue.Push: heap.Push, then the deferred Unlock
TaskPush ==
    \E t \in QueueTasks :
        /\ pc = "tasks"
        /\ local[t].op = "Push"
        /\ Events' = HeapPush(local[t].items, local[t].evt)
        /\ pushed' = [pushed EXCEPT ![local[t].evt] = @ + 1]
        /\ lastOp' = "push"
        /\ mu' = 0
        /\ local' = [local EXCEPT ![t] = Idle]
        /\ UNCHANGED <<skipped, selVars, errVars, worldVars, StartTime, EndTime,
                       policies, policyDay, lastPopped, returned,
                       CurrentTime, pc, totalCapacity, previousEventTime,
                       eventCount, applied, windows>>

\* EventQueue.Pop: nil on an empty queue, else heap.Pop; then the Unlock
TaskPop ==
    \E t \in QueueTasks :
        /\ pc = "tasks"
        /\ local[t].op = "Pop"
        /\ IF Len(local[t].items) = 0
           THEN /\ lastPopped' = Nil
                /\ UNCHANGED <<Events, returned>>
           ELSE /\ lastPopped' = HeapPopped(local[t].items)
                /\ Events' = HeapPop(local[t].items)
                /\ returned' = [returned EXCEPT
                       ![HeapPopped(local[t].items)] = @ + 1]
        /\ lastOp' = "pop"
        /\ mu' = 0
        /\ local' = [local EXCEPT ![t] = Idle]
        /\ UNCHANGED <<skipped, selVars, errVars, worldVars, StartTime, EndTime,
                       policies, policyDay, pushed, CurrentTime, pc,
                       totalCapacity, previousEventTime, eventCount,
                       applied, windows>>

\* EventQueue.Peek: nil on an empty queue, else the root; then the Unlock
TaskPeek ==
    \E t \in QueueTasks :
        /\ pc = "tasks"
        /\ local[t].op = "Peek"
        /\ lastPopped' = IF Len(local[t].items) = 0 THEN Nil
                         ELSE Peeked(local[t].items)
        /\ lastOp' = "peek"
        /\ mu' = 0
        /\ local' = [local EXCEPT ![t] = Idle]
        /\ UNCHANGED <<skipped, selVars, errVars, worldVars, StartTime, EndTime,
                       policies, policyDay, pushed, returned, Events,
                       CurrentTime, pc, totalCapacity, previousEventTime,
                       eventCount, applied, windows>>

\* ------------------------------------------------ the selector on its own
\* notifications arriving at a RunwayManager in any order; the runway id of
\* a notification need not be one of the inventory
NotifiedRunways == RunwayIDs \cup {UnknownRunway}
WindSpeeds == {0, 5, 40}
WindDirections == {0, 90, 180, 270}

SelectorFrame ==
    UNCHANGED <<skipped, selVars, errVars, taskVars, RunwayStates, CurfewActive,
                ActiveRunwayConfiguration, RotationMultiplier,
                GateCapacityConstraint, TaxiTimeOverhead, StartTime, EndTime,
                policies, policyDay, lastPopped, CurrentTime, pc, Events,
                totalCapacity, previousEventTime, eventCount, applied,
                windows>>

SelectorOnRunwayAvailable ==
    /\ pc = "selector"
    /\ \E r \in NotifiedRunways :
           RunwayManager' = OnRunwayAvailable(RunwayManager, r)
    /\ lastOp' = "OnRunwayAvailable"
    /\ SelectorFrame

SelectorOnRunwayUnavailable ==
    /\ pc = "selector"
    /\ \E r \in NotifiedRunways :
           RunwayManager' = OnRunwayUnavailable(RunwayManager, r)
    /\ lastOp' = "OnRunwayUnavailable"
    /\ SelectorFrame

SelectorOnCurfewChanged ==
    /\ pc = "selector"
    /\ \E active \in BOOLEAN :
           RunwayManager' = OnCurfewChanged(RunwayManager, active)
    /\ lastOp' = "OnCurfewChanged"
    /\ SelectorFrame

SelectorOnWindChanged ==
    /\ pc = "selector"
    /\ \E speedKnots \in WindSpeeds, directionTrue \in WindDirections :
           RunwayManager' =
               OnWindChanged(RunwayManager, speedKnots, directionTrue)
    /\ lastOp' = "OnWindChanged"
    /\ SelectorFrame

\* ------------------------------------------- calls on the compatibility graph
NoProbe == [op |-> "none", runway1 |-> "", runway2 |-> "", result |-> FALSE]

\* every graph whose keys are inventory runways and whose lists name
\* inventory runways or a runway the airport does not have, and some graphs
\* with a key that is no inventory runway
RECURSIVE SetToSeq(_, _)
SetToSeq(S, order) ==
    IF order = <<>> THEN <<>>
    ELSE IF Head(order) \in S THEN <<Head(order)>> \o SetToSeq(S, Tail(order))
    ELSE SetToSeq(S, Tail(order))

ListedOrder == allRunways \o <<UnknownRunway>>
Lists == {SetToSeq(S, ListedOrder) : S \in SUBSET NotifiedRunways}
InventoryGraphs ==
    UNION {[keys -> Lists] : keys \in SUBSET RunwayIDs}
UnknownKeyGraphs ==
    {(UnknownRunway :> l) @@ CompatibleWith : l \in {<<>>, <<"18">>}}
AllCompatibilities ==
    {NewRunwayCompatibility(g) : g \in InventoryGraphs \cup UnknownKeyGraphs}
    \cup {NilCompatibility, NilMapCompatibility}

GraphFrame ==
    UNCHANGED <<skipped, errVars, taskVars, rmMu, rmLocal, completed, held,
                RunwayStates, CurfewActive, ActiveRunwayConfiguration,
                RotationMultiplier, GateCapacityConstraint, TaxiTimeOverhead,
                StartTime, EndTime, policies, policyDay, lastPopped, lastOp,
                CurrentTime, pc, Events, totalCapacity, previousEventTime,
                eventCount, applied, windows>>

CallValidate ==
    /\ pc = "graph"
    /\ probe' = [NoProbe EXCEPT
                    !.op = "Validate",
                    !.result = Validate(RunwayManager.compatibility,
                                        RunwayIDs)]
    /\ UNCHANGED RunwayManager
    /\ GraphFrame

CallIsCompatible ==
    /\ pc = "graph"
    /\ \E runway1 \in NotifiedRunways, runway2 \in NotifiedRunways :
           probe' = [op |-> "IsCompatible", runway1 |-> runway1,
                     runway2 |-> runway2,
                     result |-> IsCompatible(RunwayManager.compatibility,
                                             runway1, runway2)]
    /\ UNCHANGED RunwayManager
    /\ GraphFrame

\* the clique computation forced on a manager, as the clique test does
CallComputeMaximalCliques ==
    /\ pc = "graph"
    /\ ~RunwayManager.fatal
    /\ RunwayManager' = computeMaximalCliques(RunwayManager)
    /\ probe' = [NoProbe EXCEPT !.op = "computeMaximalCliques",
                                !.result = TRUE]
    /\ GraphFrame

\* ------------------------------------------ the RunwayManager's callers
\* RunwayManager.mu is a sync.RWMutex: one writer or any number of readers
SelectorTasks == 1..MaxTasks
Unlocked == [writer |-> 0, readers |-> {}]
CanLock(m) == m.writer = 0 /\ m.readers = {}
CanRLock_Always(m) == TRUE
CanRLock(m) == m.writer = 0

\* a notification: the method called and its arguments
Notification(op, runwayID, active, speedKnots, directionTrue) ==
    [op |-> op, runwayID |-> runwayID, active |-> active,
     speedKnots |-> speedKnots, directionTrue |-> directionTrue]
NoNotification == Notification("none", "", FALSE, 0, 0)
Notifications ==
    {Notification(op, r, FALSE, 0, 0) :
        op \in {"OnRunwayAvailable", "OnRunwayUnavailable"},
        r \in NotifiedRunways}
    \cup {Notification("OnCurfewChanged", "", active, 0, 0) :
            active \in BOOLEAN}
    \cup {Notification("OnWindChanged", "", FALSE, speedKnots, directionTrue) :
            speedKnots \in WindSpeeds, directionTrue \in WindDirections}

\* the notifications the callers below send
SentNotifications ==
    {n \in Notifications :
        /\ n.runwayID # UnknownRunway
        /\ n.speedKnots \in {0, 40}
        /\ n.directionTrue \in {0, 270}}

\* the first statement of a notification after the lock: the field it stores
Store(rm, n) ==
    CASE n.op = "OnRunwayAvailable" ->
             [rm EXCEPT !.availableRunways = MapSet(@, n.runwayID, TRUE)]
      [] n.op = "OnRunwayUnavailable" ->
             [rm EXCEPT !.availableRunways = MapSet(@, n.runwayID, FALSE)]
      [] n.op = "OnCurfewChanged" -> [rm EXCEPT !.curfewActive = n.active]
      [] n.op = "OnWindChanged" ->
             [rm EXCEPT !.windSpeed = n.speedKnots,
                        !.windDirection = n.directionTrue]

NoCall ==
    [op |-> "idle", step |-> "", call |-> NoNotification, todo |-> {},
     config |-> NoConfig]

ManagerFrame ==
    UNCHANGED <<skipped, errVars, taskVars, probe, RunwayStates, CurfewActive,
                ActiveRunwayConfiguration, RotationMultiplier,
                GateCapacityConstraint, TaxiTimeOverhead, StartTime, EndTime,
                policies, policyDay, lastPopped, CurrentTime, pc, Events,
                totalCapacity, previousEventTime, eventCount, applied,
                windows>>

\* rm.mu.Lock() of a notification
WriterLock ==
    \E t \in SelectorTasks :
    /\ pc = "readers"
    /\ rmLocal[t] = NoCall
    /\ Len(completed) <= MaxNotifications
    /\ CanLock(rmMu)
    /\ \E n \in SentNotifications :
           rmLocal' = [rmLocal EXCEPT
                          ![t] = [NoCall EXCEPT !.op = n.op,
                                                !.step = "locked",
                                                !.call = n]]
    /\ rmMu' = [rmMu EXCEPT !.writer = t]
    /\ lastOp' = "Lock"
    /\ UNCHANGED <<RunwayManager, completed, held>>
    /\ ManagerFrame

\* the field is stored; calculateActiveConfiguration replaces the
\* configuration by an empty map and selects the runways to enter
WriterStore ==
    \E t \in SelectorTasks :
    /\ pc = "readers"
    /\ rmLocal[t].step = "locked"
    /\ LET target ==
               calculateActiveConfiguration(
                   Store(RunwayManager, rmLocal[t].call))
       IN /\ RunwayManager' =
                 [target EXCEPT !.currentConfiguration = NoConfig]
          /\ rmLocal' = [rmLocal EXCEPT
                            ![t].step = "build",
                            ![t].todo =
                                ActiveIDs(target.currentConfiguration)]
    /\ lastOp' = rmLocal[t].op
    /\ UNCHANGED <<rmMu, completed, held>>
    /\ ManagerFrame

\* one pass of the loop that enters the selected runways
WriterBuild ==
    \E t \in SelectorTasks :
    /\ pc = "readers"
    /\ rmLocal[t].step = "build"
    /\ \E r \in rmLocal[t].todo :
           /\ RunwayManager' =
                  [RunwayManager EXCEPT
                      !.currentConfiguration[r] =
                          determineRunwayDirection(
                              RunwayManager,
                              findRunwayByID(RunwayManager, r))]
           /\ rmLocal' = [rmLocal EXCEPT ![t].todo = @ \ {r}]
    /\ lastOp' = rmLocal[t].op
    /\ UNCHANGED <<rmMu, completed, held>>
    /\ ManagerFrame

\* the deferred rm.mu.Unlock(): the notification is complete
WriterUnlock ==
    \E t \in SelectorTasks :
    /\ pc = "readers"
    /\ rmLocal[t].step = "build"
    /\ rmLocal[t].todo = {}
    /\ rmMu' = [rmMu EXCEPT !.writer = 0]
    /\ completed' = Append(completed, RunwayManager.currentConfiguration)
    /\ rmLocal' = [rmLocal EXCEPT ![t] = NoCall]
    /\ lastOp' = "Unlock"
    /\ UNCHANGED <<RunwayManager, held>>
    /\ ManagerFrame

\* rm.mu.RLock() of GetActiveConfiguration
ReaderRLock ==
    \E t \in SelectorTasks :
    /\ pc = "readers"
    /\ rmLocal[t] = NoCall
    /\ CanRLock(rmMu)
    /\ rmMu' = [rmMu EXCEPT !.readers = @ \cup {t}]
    /\ rmLocal' = [rmLocal EXCEPT
                      ![t] = [NoCall EXCEPT !.op = "GetActiveConfiguration",
                                            !.step = "rlocked"]]
    /\ lastOp' = "RLock"
    /\ UNCHANGED <<RunwayManager, completed, held>>
    /\ ManagerFrame

\* the copy loop of GetActiveConfiguration
ReaderCopy ==
    \E t \in SelectorTasks :
    /\ pc = "readers"
    /\ rmLocal[t].step = "rlocked"
    /\ rmLocal' = [rmLocal EXCEPT
                      ![t].step = "copied",
                      ![t].config = GetActiveConfiguration(RunwayManager)]
    /\ lastOp' = "GetActiveConfiguration"
    /\ UNCHANGED <<RunwayManager, rmMu, completed, held>>
    /\ ManagerFrame

\* the deferred rm.mu.RUnlock(): the copy is returned
ReaderRUnlock ==
    \E t \in SelectorTasks :
    /\ pc = "readers"
    /\ rmLocal[t].step = "copied"
    /\ rmMu' = [rmMu EXCEPT !.readers = @ \ {t}]
    /\ rmLocal' = [rmLocal EXCEPT ![t] = NoCall]
    /\ lastOp' = "RUnlock"
    /\ UNCHANGED <<RunwayManager, completed, held>>
    /\ ManagerFrame

\* ------------------------------------- a caller keeping a returned map
\* GetActiveConfiguration makes a new map and enters a pointer to a copy
\* of each record; the record has no pointer, slice or map field
ReturnsInternalMap == FALSE
SharesRecords_Pointers(config) == ActiveIDs(config)
SharesRecords(config) == {}

Directions == {"Forward", "Reverse"}
NothingHeld ==
    [taken |-> FALSE, sharedMap |-> FALSE, sharedInfo |-> {},
     config |-> NoConfig]

CallerGetActiveConfiguration ==
    /\ pc = "caller"
    /\ held' = [taken |-> TRUE,
                sharedMap |-> ReturnsInternalMap,
                sharedInfo |->
                    SharesRecords(GetActiveConfiguration(RunwayManager)),
                config |-> GetActiveConfiguration(RunwayManager)]
    /\ lastOp' = "GetActiveConfiguration"
    /\ UNCHANGED <<RunwayManager, rmMu, rmLocal, completed>>
    /\ ManagerFrame

\* the caller deletes an entry of the map it holds, or adds or replaces
\* one by a record of its own
CallerChangesMap ==
    /\ pc = "caller"
    /\ held.taken
    /\ \E r \in RunwayIDs, d \in Directions \cup {"None"} :
           /\ held.config[r] # d
           /\ held' = [held EXCEPT !.config[r] = d,
                                   !.sharedInfo = @ \ {r}]
           /\ RunwayManager' =
                  IF held.sharedMap
                  THEN [RunwayManager EXCEPT !.currentConfiguration[r] = d]
                  ELSE RunwayManager
    /\ lastOp' = "ChangeMap"
    /\ UNCHANGED <<rmMu, rmLocal, completed>>
    /\ ManagerFrame

\* the caller assigns a field of a record the map it holds points to
CallerChangesRecord ==
    /\ pc = "caller"
    /\ held.taken
    /\ \E r \in ActiveIDs(held.config), d \in Directions :
           /\ held.config[r] # d
           /\ held' = [held EXCEPT !.config[r] = d]
           /\ RunwayManager' =
                  IF r \in held.sharedInfo
                  THEN [RunwayManager EXCEPT !.currentConfiguration[r] = d]
                  ELSE RunwayManager
    /\ lastOp' = "ChangeRecord"
    /\ UNCHANGED <<rmMu, rmLocal, completed>>
    /\ ManagerFrame

\* a notification: the manager builds a new map of new records, so that
\* nothing handed out before is part of its configuration any more
CallerNotifies ==
    /\ pc = "caller"
    /\ \E n \in SentNotifications :
           /\ RunwayManager' =
                  calculateActiveConfiguration(Store(RunwayManager, n))
           /\ lastOp' = n.op
    /\ held' = [held EXCEPT !.sharedMap = FALSE, !.sharedInfo = {}]
    /\ UNCHANGED <<rmMu, rmLocal, completed>>
    /\ ManagerFrame

\* ------------------------------------------- calls of the World setters
\* a caller of the WorldState interface calls a setter with any argument
GateRates == {NegativeGateRate, RZero, GateRate}
TaxiOverheads == {NegativeTaxiOverhead, 0, TaxiOverheadSeconds}
Multipliers ==
    {NegativeMultiplier, NoiseOptimizedEfficiency, ROne, ExcessMultiplier}

SetterFrame ==
    UNCHANGED <<skipped, errVars, taskVars, rmMu, rmLocal, completed, held,
                RunwayManager, ActiveRunwayConfiguration, StartTime, EndTime,
                policies, policyDay, lastPopped, lastOp, CurrentTime, pc,
                Events, totalCapacity, previousEventTime, eventCount,
                applied, windows>>

Returned(op, runwayID, err) ==
    [op |-> op, runway1 |-> runwayID, runway2 |-> "", result |-> err]

CallSetRunwayAvailable ==
    /\ pc = "setters"
    /\ \E runwayID \in NotifiedRunways, available \in BOOLEAN :
           LET res == SetRunwayAvailable(RunwayStates, runwayID, available)
           IN /\ RunwayStates' = res.value
              /\ probe' = Returned("SetRunwayAvailable", runwayID, res.err)
    /\ UNCHANGED <<CurfewActive, RotationMultiplier, GateCapacityConstraint,
                   TaxiTimeOverhead>>
    /\ SetterFrame

CallSetGateCapacityConstraint ==
    /\ pc = "setters"
    /\ \E maxMovementsPerSecond \in GateRates :
           LET res == SetGateCapacityConstraint(GateCapacityConstraint,
                                                maxMovementsPerSecond)
           IN /\ GateCapacityConstraint' = res.value
              /\ probe' = Returned("SetGateCapacityConstraint", "", res.err)
    /\ UNCHANGED <<RunwayStates, CurfewActive, RotationMultiplier,
                   TaxiTimeOverhead>>
    /\ SetterFrame

CallSetTaxiTimeOverhead ==
    /\ pc = "setters"
    /\ \E overhead \in TaxiOverheads :
           LET res == SetTaxiTimeOverhead(TaxiTimeOverhead, overhead)
           IN /\ TaxiTimeOverhead' = res.value
              /\ probe' = Returned("SetTaxiTimeOverhead", "", res.err)
    /\ UNCHANGED <<RunwayStates, CurfewActive, RotationMultiplier,
                   GateCapacityConstraint>>
    /\ SetterFrame

CallSetRotationMultiplier ==
    /\ pc = "setters"
    /\ \E multiplier \in Multipliers :
           LET res == SetRotationMultiplier(RotationMultiplier, multiplier)
           IN /\ RotationMultiplier' = res.value
              /\ probe' = Returned("SetRotationMultiplier", "", res.err)
    /\ UNCHANGED <<RunwayStates, CurfewActive, GateCapacityConstraint,
                   TaxiTimeOverhead>>
    /\ SetterFrame

CallSetCurfewActive ==
    /\ pc = "setters"
    /\ \E active \in BOOLEAN :
           LET res == SetCurfewActive(CurfewActive, active)
           IN /\ CurfewActive' = res.value
              /\ probe' = Returned("SetCurfewActive", "", res.err)
    /\ UNCHANGED <<RunwayStates, RotationMultiplier, GateCapacityConstraint,
                   TaxiTimeOverhead>>
    /\ SetterFrame

\* ---------------------------------------------------------- specifications
\* no policy task has failed, no queue task is running
TasksIdle ==
    /\ pending = [p \in PolicyTasks |-> NoError]
    /\ firstErr = NoError
    /\ errors = <<>>
    /\ mu = 0
    /\ local = [t \in QueueTasks |-> Idle]
    /\ pushed = [e \in QueueEvents |-> 0]
    /\ returned = [e \in QueueEvents |-> 0]
    /\ probe = NoProbe
    /\ rmMu = Unlocked
    /\ rmLocal = [t \in SelectorTasks |-> NoCall]
    /\ completed = <<GetActiveConfiguration(RunwayManager)>>
    /\ held = NothingHeld

\* The Engine over events scheduled by a caller.
Init ==
    /\ NewWorld(0, DayHours, Runways, Compatibility("graph"))
    /\ policies = {}
    /\ schedule = [p \in MaintenanceTasks |-> <<"18">>]
    /\ pc = "generate"
    /\ EngineIdle
    /\ TasksIdle

Next ==
    \/ ScheduleEvent
    \/ Calculate
    \/ SkipEventBeforeStart
    \/ TruncateAfterEnd
    \/ ApplyCurfewStartEvent
    \/ ApplyCurfewEndEvent
    \/ ApplyRunwayMaintenanceStartEvent
    \/ ApplyRunwayMaintenanceEndEvent
    \/ ApplyRotationChangeEvent
    \/ ApplyGateCapacityConstraintEvent
    \/ ApplyTaxiTimeAdjustmentEvent
    \/ ApplyActiveRunwayConfigurationChangedEvent
    \/ ApplyFailed
    \/ FinalWindow

Spec == Init /\ [][Next]_vars

\* processTimeline runs on the goroutine that called Calculate: once the
\* loop is entered each of its steps is taken
EngineStep ==
    \/ SkipEventBeforeStart
    \/ TruncateAfterEnd
    \/ ApplyCurfewStartEvent
    \/ ApplyCurfewEndEvent
    \/ ApplyRunwayMaintenanceStartEvent
    \/ ApplyRunwayMaintenanceEndEvent
    \/ ApplyRotationChangeEvent
    \/ ApplyGateCapacityConstraintEvent
    \/ ApplyTaxiTimeAdjustmentEvent
    \/ ApplyActiveRunwayConfigurationChangedEvent
    \/ ApplyFailed
    \/ FinalWindow
\* processTimeline is a for loop whose body is an if/else chain: while the
\* loop runs a step is always possible, so ENABLED <<EngineStep>>_vars is
\* InProcessTimeline, and EngineFairness is WF_vars(EngineStep) with the
\* enabling condition written out
InProcessTimeline == pc \in {"loop", "final"}
EngineFairness ==
    []<>(~InProcessTimeline) \/ []<><<EngineStep>>_vars
SpecTerminating == Spec /\ EngineFairness

\* Simulation.Run: the policies generate events over a window of whole days
\* (optionally extended to the end of the last curfew), then the Engine runs.
WindowExtras == {0, CurfewEndHour}

InitRun ==
    /\ \E days \in 1..MaxDays, extra \in WindowExtras :
           NewWorld(0, DayHours * days + extra, Runways,
                    Compatibility("graph"))
    /\ policies \in SUBSET PolicyNames
    /\ schedule = [p \in MaintenanceTasks |-> <<"18">>]
    /\ pc = "generate"
    /\ EngineIdle
    /\ TasksIdle

NextRun ==
    \/ CurfewPolicyGenerateEvents
    \/ GateCapacityPolicyGenerateEvents
    \/ TaxiTimePolicyGenerateEvents
    \/ Calculate
    \/ ApplyCurfewStartEvent
    \/ ApplyCurfewEndEvent
    \/ ApplyGateCapacityConstraintEvent
    \/ ApplyTaxiTimeAdjustmentEvent
    \/ ApplyActiveRunwayConfigurationChangedEvent
    \/ FinalWindow

SpecRun == InitRun /\ [][NextRun]_vars

\* The EventQueue under arbitrary pushes and pops.
InitQueue ==
    /\ NewWorld(0, DayHours, Runways, Compatibility("graph"))
    /\ policies = {}
    /\ schedule = [p \in MaintenanceTasks |-> <<"18">>]
    /\ EngineIdle
    /\ TasksIdle
    /\ pc = "queue"

NextQueue ==
    \/ QueuePush
    \/ QueuePop
    \/ QueuePeek

SpecQueue == InitQueue /\ [][NextQueue]_vars

\* Simulation.Run with policies that can fail and a policy that sets the
\* wind, over any of the airport's compatibility graphs.
InitPolicies ==
    /\ \E compatibility \in CompatibilityKinds :
           NewWorld(0, DayHours, Runways, Compatibility(compatibility))
    /\ policies \in SUBSET ({"CurfewPolicy", "WindPolicy"}
                            \cup MaintenanceTasks)
    /\ schedule \in [MaintenanceTasks -> Schedules]
    /\ \A p \in MaintenanceTasks \ policies : schedule[p] = <<"18">>
    /\ pc = "generate"
    /\ EngineIdle
    /\ TasksIdle

NextPolicies ==
    \/ CurfewPolicyGenerateEvents
    \/ IntelligentMaintenancePolicyGenerateEvents
    \/ WindPolicyGenerateEvents
    \/ RecordError
    \/ ReturnFirstErr
    \/ Calculate
    \/ ApplyCurfewStartEvent
    \/ ApplyRunwayMaintenanceStartEvent
    \/ ApplyRunwayMaintenanceEndEvent
    \/ ApplyActiveRunwayConfigurationChangedEvent
    \/ FinalWindow

SpecPolicies == InitPolicies /\ [][NextPolicies]_vars

\* The EventQueue used by concurrent tasks.
InitTasks ==
    /\ NewWorld(0, DayHours, Runways, Compatibility("graph"))
    /\ policies = {}
    /\ schedule = [p \in MaintenanceTasks |-> <<"18">>]
    /\ EngineIdle
    /\ TasksIdle
    /\ pc = "tasks"

NextTasks ==
    \/ TaskLock
    \/ TaskPush
    \/ TaskPop
    \/ TaskPeek

SpecTasks == InitTasks /\ [][NextTasks]_vars

\* The RunwayManager under arbitrary notifications.
SelectorCompatibilities ==
    {Compatibility(kind) :
        kind \in CompatibilityKinds \cup {"chain", "complete"}}
    \cup {NilMapCompatibility}

InitSelector ==
    /\ \E runways \in Airports, compatibility \in SelectorCompatibilities :
           NewWorld(0, DayHours, runways, compatibility)
    /\ policies = {}
    /\ schedule = [p \in MaintenanceTasks |-> <<"18">>]
    /\ EngineIdle
    /\ TasksIdle
    /\ pc = "selector"

NextSelector ==
    \/ SelectorOnRunwayAvailable
    \/ SelectorOnRunwayUnavailable
    \/ SelectorOnCurfewChanged
    \/ SelectorOnWindChanged

SpecSelector == InitSelector /\ [][NextSelector]_vars


\* Concurrent callers of one RunwayManager.
InitReaders ==
    /\ \E compatibility \in {NilCompatibility, Compatibility("graph")} :
           NewWorld(0, DayHours, Runways, compatibility)
    /\ policies = {}
    /\ schedule = [p \in MaintenanceTasks |-> <<"18">>]
    /\ EngineIdle
    /\ TasksIdle
    /\ pc = "readers"

NextReaders ==
    \/ WriterLock
    \/ WriterStore
    \/ WriterBuild
    \/ WriterUnlock
    \/ ReaderRLock
    \/ ReaderCopy
    \/ ReaderRUnlock

SpecReaders == InitReaders /\ [][NextReaders]_vars

\* A caller that changes the maps GetActiveConfiguration returned.
InitCaller ==
    /\ \E compatibility \in {NilCompatibility, Compatibility("graph")} :
           NewWorld(0, DayHours, Runways, compatibility)
    /\ policies = {}
    /\ schedule = [p \in MaintenanceTasks |-> <<"18">>]
    /\ EngineIdle
    /\ TasksIdle
    /\ pc = "caller"

NextCaller ==
    \/ CallerGetActiveConfiguration
    \/ CallerChangesMap
    \/ CallerChangesRecord
    \/ CallerNotifies

SpecCaller == InitCaller /\ [][NextCaller]_vars

\* The World's setters called directly.
InitSetters ==
    /\ NewWorld(0, DayHours, Runways, Compatibility("graph"))
    /\ policies = {}
    /\ schedule = [p \in MaintenanceTasks |-> <<"18">>]
    /\ EngineIdle
    /\ TasksIdle
    /\ pc = "setters"

NextSetters ==
    \/ CallSetRunwayAvailable
    \/ CallSetGateCapacityConstraint
    \/ CallSetTaxiTimeOverhead
    \/ CallSetRotationMultiplier
    \/ CallSetCurfewActive

SpecSetters == InitSetters /\ [][NextSetters]_vars

\* RunwayCompatibility and the clique computation over every graph.
InitGraph ==
    /\ \E compatibility \in AllCompatibilities :
           NewWorld(0, DayHours, Runways, compatibility)
    /\ policies = {}
    /\ schedule = [p \in MaintenanceTasks |-> <<"18">>]
    /\ EngineIdle
    /\ TasksIdle
    /\ pc = "graph"

NextGraph ==
    \/ CallValidate
    \/ CallIsCompatible
    \/ CallComputeMaximalCliques

SpecGraph == InitGraph /\ [][NextGraph]_vars

\* ------------------------------- tasks that use the queue and the selector
\* A task calls World.NotifyCurfewChange (OnCurfewChanged, then
\* GetActiveConfiguration, then ScheduleEvent), GetActiveConfiguration on
\* its own, or Pop or HasNext of the queue.  rmLocal[t].step is the place
\* the task has reached in its call.
LockTasks == 1..MaxTasks
NotifyTime == StartTime + 1
Call(op, step, config) ==
    [NoCall EXCEPT !.op = op, !.step = step, !.config = config]
Unlock_Never(m) == m
Unlock(m) == [m EXCEPT !.writer = 0]
RUnlock(m, t) == [m EXCEPT !.readers = @ \ {t}]
HoldsSelector(t) == rmMu.writer = t \/ t \in rmMu.readers
HoldsQueue(t) == mu = t
Notifying == {t \in LockTasks : rmLocal[t].op = "NotifyCurfewChange"}

LocksFrame ==
    UNCHANGED <<skipped, errVars, local, pushed, returned, probe, completed,
                held, RunwayStates, CurfewActive, ActiveRunwayConfiguration,
                RotationMultiplier, GateCapacityConstraint, TaxiTimeOverhead,
                StartTime, EndTime, policies, policyDay, lastPopped,
                CurrentTime, pc, totalCapacity, previousEventTime,
                eventCount, applied, windows>>

\* rm.mu.Lock() of OnCurfewChanged, the first call of NotifyCurfewChange
NotifyLockOf(t) ==
    /\ pc = "locks"
    /\ rmLocal[t] = NoCall
    /\ Len(Events) + Cardinality(Notifying) < MaxTasks
    /\ CanLock(rmMu)
    /\ rmMu' = [rmMu EXCEPT !.writer = t]
    /\ rmLocal' = [rmLocal EXCEPT
                      ![t] = Call("NotifyCurfewChange", "locked", NoConfig)]
    /\ lastOp' = "Lock"
    /\ UNCHANGED <<RunwayManager, mu, Events>>
    /\ LocksFrame
\* OnCurfewChanged stores the flag and recomputes; the deferred Unlock
NotifyRecomputeOf(t) ==
    /\ pc = "locks"
    /\ rmLocal[t].step = "locked"
    /\ \E active \in BOOLEAN :
           RunwayManager' = OnCurfewChanged(RunwayManager, active)
    /\ rmMu' = Unlock(rmMu)
    /\ rmLocal' = [rmLocal EXCEPT ![t].step = "recomputed"]
    /\ lastOp' = "OnCurfewChanged"
    /\ UNCHANGED <<mu, Events>>
    /\ LocksFrame
\* rm.mu.RLock() of GetActiveConfiguration, called on its own or as the
\* second call of NotifyCurfewChange
GetRLockOf(t) ==
    /\ pc = "locks"
    /\ \/ /\ rmLocal[t] = NoCall
          /\ rmLocal' = [rmLocal EXCEPT
                  ![t] = Call("GetActiveConfiguration", "rlocked", NoConfig)]
       \/ /\ rmLocal[t].step = "recomputed"
          /\ rmLocal' = [rmLocal EXCEPT ![t].step = "rlocked"]
    /\ CanRLock(rmMu)
    /\ rmMu' = [rmMu EXCEPT !.readers = @ \cup {t}]
    /\ lastOp' = "RLock"
    /\ UNCHANGED <<RunwayManager, mu, Events>>
    /\ LocksFrame
\* the copy of the configuration and the deferred RUnlock
GetCopyOf(t) ==
    /\ pc = "locks"
    /\ rmLocal[t].step = "rlocked"
    /\ rmMu' = RUnlock(rmMu, t)
    /\ rmLocal' =
           IF rmLocal[t].op = "GetActiveConfiguration"
           THEN [rmLocal EXCEPT ![t] = NoCall]
           ELSE [rmLocal EXCEPT
                    ![t].step = "copied",
                    ![t].config = GetActiveConfiguration(RunwayManager)]
    /\ lastOp' = "GetActiveConfiguration"
    /\ UNCHANGED <<RunwayManager, mu, Events>>
    /\ LocksFrame
\* q.mu.Lock() of Push (from ScheduleEvent, the last call of
\* NotifyCurfewChange), of Pop or of HasNext
QueueLockOf(t) ==
    /\ pc = "locks"
    /\ \/ /\ rmLocal[t] = NoCall
          /\ \E op \in {"Pop", "HasNext"} :
                 rmLocal' = [rmLocal EXCEPT
                                ![t] = Call(op, "queue locked", NoConfig)]
       \/ /\ rmLocal[t].step = "copied"
          /\ rmLocal' = [rmLocal EXCEPT ![t].step = "queue locked"]
    /\ LockFree(mu)
    /\ mu' = t
    /\ lastOp' = "Lock"
    /\ UNCHANGED <<RunwayManager, rmMu, Events>>
    /\ LocksFrame
\* the operation on the heap and the deferred q.mu.Unlock()
QueueOperationOf(t) ==
    /\ pc = "locks"
    /\ rmLocal[t].step = "queue locked"
    /\ Events' =
           CASE rmLocal[t].op = "NotifyCurfewChange" ->
                    Push(Events,
                         NewActiveRunwayConfigurationChangedEvent(
                             rmLocal[t].config, NotifyTime))
             [] rmLocal[t].op = "Pop" /\ HasNext(Events) -> HeapPop(Events)
             [] OTHER -> Events
    /\ mu' = 0
    /\ rmLocal' = [rmLocal EXCEPT ![t] = NoCall]
    /\ lastOp' = rmLocal[t].op
    /\ UNCHANGED <<RunwayManager, rmMu>>
    /\ LocksFrame

NotifyLock == \E t \in LockTasks : NotifyLockOf(t)
NotifyRecompute == \E t \in LockTasks : NotifyRecomputeOf(t)
GetRLock == \E t \in LockTasks : GetRLockOf(t)
GetCopy == \E t \in LockTasks : GetCopyOf(t)
QueueLock == \E t \in LockTasks : QueueLockOf(t)
QueueOperation == \E t \in LockTasks : QueueOperationOf(t)

InitLocks ==
    /\ NewWorld(0, DayHours, Runways, Compatibility("graph"))
    /\ policies = {}
    /\ schedule = [p \in MaintenanceTasks |-> <<"18">>]
    /\ EngineIdle
    /\ TasksIdle
    /\ pc = "locks"

NextLocks ==
    \/ NotifyLock
    \/ NotifyRecompute
    \/ GetRLock
    \/ GetCopy
    \/ QueueLock
    \/ QueueOperation

\* a task inside a call, and the step that takes it on
InCall(t) == rmLocal[t] # NoCall
CanContinue(t) ==
    CASE rmLocal[t].step = "recomputed" -> CanRLock(rmMu)
      [] rmLocal[t].step = "copied" -> LockFree(mu)
      [] OTHER -> InCall(t)
Continue(t) ==
    /\ InCall(t)
    /\ \/ NotifyRecomputeOf(t)
       \/ GetRLockOf(t)
       \/ GetCopyOf(t)
       \/ QueueLockOf(t)
       \/ QueueOperationOf(t)
\* The scheduler runs every goroutine that can run, and a goroutine that
\* waits for a sync.Mutex or a sync.RWMutex gets it once the holders have
\* released it (neither lock starves a waiter): strong fairness of each
\* task's step inside a call.  ENABLED <<Continue(t)>>_vars is
\* CanContinue(t), so TaskFairness(t) is SF_vars(Continue(t)) with the
\* enabling condition written out.
TaskFairness(t) == <>[](~CanContinue(t)) \/ []<><<Continue(t)>>_vars
SpecLocks ==
    InitLocks /\ [][NextLocks]_vars /\ \A t \in LockTasks : TaskFairness(t)

\* Simulation.Run with two GateCapacityPolicy instances among its policies
InitInterleaving ==
    /\ \E days \in 1..MaxDays :
           NewWorld(0, DayHours * days, Runways, Compatibility("graph"))
    /\ \E others \in SUBSET {"CurfewPolicy", "TaxiTimePolicy"} :
           policies = {"GateCapacityPolicy", SecondGateCapacityPolicy}
                      \cup others
    /\ schedule = [p \in MaintenanceTasks |-> <<"18">>]
    /\ pc = "generate"
    /\ EngineIdle
    /\ TasksIdle

NextInterleaving ==
    \/ CurfewPolicyGenerateEvents
    \/ GateCapacityPolicyGenerateEvents
    \/ SecondGateCapacityPolicyGenerateEvents
    \/ TaxiTimePolicyGenerateEvents
    \/ Calculate
    \/ ApplyCurfewStartEvent
    \/ ApplyCurfewEndEvent
    \/ ApplyGateCapacityConstraintEvent
    \/ ApplyTaxiTimeAdjustmentEvent
    \/ ApplyActiveRunwayConfigurationChangedEvent
    \/ FinalWindow

SpecInterleaving == InitInterleaving /\ [][NextInterleaving]_vars

\* ------------------------------------------------------------- properties
RECURSIVE SumDurations(_)
SumDurations(ws) ==
    IF ws = <<>> THEN 0
    ELSE (Head(ws).end - Head(ws).start) + SumDurations(Tail(ws))

RECURSIVE SumCapacities(_)
SumCapacities(ws) ==
    IF ws = <<>> THEN RZero
    ELSE RAdd(Head(ws).capacity, SumCapacities(Tail(ws)))

\* movements per second of a set of runways, each at its own separation
RECURSIVE ThroughputPerSecond(_)
ThroughputPerSecond(rs) ==
    IF rs = {} THEN RZero
    ELSE LET r == CHOOSE x \in rs : TRUE
         IN RAdd(Rat(1, MinimumSeparation[r]),
                 ThroughputPerSecond(rs \ {r}))

PositiveWindows == {i \in 1..Len(windows) : windows[i].end > windows[i].start}

\* C1: every integration window counts only the runways of the active
\* configuration in force, so no two incompatible runways are counted for
\* the same window.
C1_CountsOnlyActiveConfiguration ==
    \A i \in PositiveWindows :
        ~windows[i].world.curfew =>
            /\ CountedRunways(windows[i].world) \subseteq windows[i].world.config
            /\ \A a, b \in CountedRunways(windows[i].world) :
                  IsCompatible(RunwayManager.compatibility, a, b)

\* C2: the events are applied in non-decreasing timestamp order, follow-up
\* events enqueued during an Apply included.
C2_AppliedInTimestampOrder ==
    \A i, j \in 1..Len(applied) :
        i < j => applied[i].time <= applied[j].time

C2_Witness ==
    /\ pc = "done"
    /\ \E i, j, k \in 1..Len(applied) :
          /\ i < j /\ j < k
          /\ applied[j].type = "ActiveRunwayConfigurationChanged"
          /\ applied[i].time = applied[j].time
          /\ applied[j].time < applied[k].time

\* C3: the interval that ends at an applied event is integrated with the
\* World as it was before the event was applied, from the previous event's
\* time (or the window start) to the event's time.
C3_IntegratesPreEventState ==
    [][Len(applied') = Len(applied) + 1 =>
          LET evt == applied'[Len(applied')]
              win == windows'[Len(windows')]
          IN /\ Len(windows') = Len(windows) + 1
             /\ win.start = previousEventTime
             /\ win.end = evt.time
             /\ win.world = WorldSnapshot
             /\ totalCapacity' =
                    RAdd(totalCapacity,
                         calculateWindowCapacity(WorldSnapshot,
                             evt.time - previousEventTime))]_vars

\* an event that changes the capacity was applied after a positive interval
C3_Witness ==
    \E i \in 1..Len(applied) :
        /\ applied[i].type = "CurfewStart"
        /\ ~windows[i].world.curfew
        /\ windows[i].end > windows[i].start
        /\ RLt(RZero, windows[i].capacity)

\* C4: in a run that returns without error the integrated intervals are
\* contiguous and cover the window: their durations sum to EndTime - StartTime.
C4_IntervalsCoverWindow ==
    pc = "done" =>
        /\ SumDurations(windows) = EndTime - StartTime
        /\ \A i \in 1..Len(windows) :
              windows[i].start = IF i = 1 THEN StartTime
                                 ELSE windows[i - 1].end

\* C5 as stated: no event at or after the window end is ever applied.
C5_NoEventAtOrAfterEndApplied ==
    \A i \in 1..Len(applied) : applied[i].time < EndTime

\* C5 as amended: no event strictly after the window end is ever applied;
\* the first such event popped ends event processing and changes nothing
\* in the World.
C5_NoEventAfterEndApplied ==
    /\ [](\A i \in 1..Len(applied) : applied[i].time <= EndTime)
    /\ [][(pc = "loop" /\ HasNext(Events)
           /\ HeapPopped(Events).time > EndTime)
          => (pc' = "final" /\ applied' = applied /\ UNCHANGED worldVars)]_vars
    /\ [][(pc \in {"final", "done"}) => (applied' = applied)]_vars

C5_Witness ==
    /\ pc = "final"
    /\ \E i \in 1..Len(applied) : applied[i].time = EndTime

\* C6: an event before the window start is skipped: it is not applied,
\* leaves every World field unchanged and adds no interval.
C6_EventBeforeStartSkipped ==
    /\ [](\A i \in 1..Len(applied) : applied[i].time >= StartTime)
    /\ [][(pc = "loop" /\ HasNext(Events)
           /\ HeapPopped(Events).time < StartTime)
          => /\ UNCHANGED worldVars
             /\ applied' = applied
             /\ windows' = windows
             /\ totalCapacity' = totalCapacity
             /\ (previousEventTime' = previousEventTime)]_vars

C6_Witness ==
    /\ pc = "done"
    /\ skipped > 0
    /\ Len(applied) > 0

\* C7: an interval integrated while the curfew flag is set adds exactly
\* zero, and the total is the sum of what the intervals added.
C7_CurfewWindowIsZero ==
    /\ \A i \in 1..Len(windows) :
          windows[i].world.curfew => windows[i].capacity = RZero
    /\ pc # "error" => totalCapacity = SumCapacities(windows)

C7_Witness ==
    \E i \in PositiveWindows :
        /\ windows[i].world.curfew
        /\ CountedRunways(windows[i].world) # {}
        /\ RLt(RZero, windows[i].world.gate)

\* C8: the gate-derived rate 1 / (1/ceiling + taxi seconds) of a window and
\* its rotation-adjusted runway rate
C8_GateRate(w) == RDiv(ROne, RAdd(RDiv(ROne, w.gate), RInt(w.taxi)))
C8_RunwayRate(w) == RMul(ThroughputPerSecond(CountedRunways(w)), w.rotation)
C8_Dominated(w) ==
    /\ ~w.curfew
    /\ RLt(RZero, w.gate)
    /\ RLt(C8_GateRate(w), C8_RunwayRate(w))

\* C8: a non-curfew window whose gate-derived rate is below the runway rate
\* has the gate-derived rate times its seconds as capacity, so a run in which
\* that rate was in force throughout totals the rate over the full window.
C8_GateCeilingDominance ==
    /\ \A i \in 1..Len(windows) :
          C8_Dominated(windows[i].world) =>
              windows[i].capacity =
                  RMul(C8_GateRate(windows[i].world),
                       Seconds(windows[i].end - windows[i].start))
    /\ (/\ pc = "done"
        /\ C8_Dominated(WorldSnapshot)
        /\ \A i \in PositiveWindows :
              /\ C8_Dominated(windows[i].world)
              /\ C8_GateRate(windows[i].world) = C8_GateRate(WorldSnapshot))
       => totalCapacity =
              RMul(C8_GateRate(WorldSnapshot), Seconds(EndTime - StartTime))

\* C9: hours of the window, and the runway throughput of one hour
C9_Days == EndTime \div DayHours
C9_Baseline(hours) ==
    RMul(ThroughputPerSecond(RunwayIDs), Seconds(hours))

\* C9 as stated: over N whole days the nightly curfew takes the throughput
\* of 7*N hours off the baseline.
C9_CurfewTakesSevenHoursPerDay ==
    (pc = "done" /\ policies = {"CurfewPolicy"} /\ EndTime % DayHours = 0)
    => totalCapacity = C9_Baseline((EndTime - StartTime) - 7 * C9_Days)

\* C9 as amended: over N whole days the curfew takes 7*N - 6 hours off the
\* baseline; it takes 7*N hours when the window runs 6 hours longer, to the
\* end of the last curfew.
C9_CurfewHoursOverWindow ==
    (pc = "done" /\ policies = {"CurfewPolicy"})
    => totalCapacity =
           C9_Baseline((EndTime - StartTime)
                       - (IF EndTime % DayHours = 0
                          THEN 7 * C9_Days - 6 ELSE 7 * C9_Days))

C9_Witness ==
    /\ pc = "done"
    /\ policies = {"CurfewPolicy"}
    /\ EndTime = 2 * DayHours
    /\ Len(applied) > 2

\* C10: a pop on a non-empty queue returns an event no later than every
\* event left in the queue, and pops that follow one another without a push
\* in between return non-decreasing timestamps.
C10_PopReturnsEarliest ==
    [][(pc = "queue" /\ lastOp' = "pop" /\ Len(Events) > 0) =>
          /\ Len(Events') = Len(Events) - 1
          /\ \A i \in 1..Len(Events') : lastPopped'.time <= Events'[i].time
          /\ (lastOp = "pop" /\ lastPopped # Nil)
                 => (lastPopped.time <= lastPopped'.time)]_vars

C10_Witness ==
    /\ pc = "queue"
    /\ lastOp = "pop"
    /\ lastPopped # Nil
    /\ Len(Events) >= 2
    /\ \E i \in 1..Len(Events) : lastPopped.time < Events[i].time
    /\ \E i, j \in 1..Len(Events) : Events[i].time < Events[j].time

CountIn(e, q) == Cardinality({i \in 1..Len(q) : q[i] = e})
TasksQuiet == \A t \in QueueTasks : local[t].op = "idle"

\* C11: under any interleaving of the tasks no event is lost or duplicated:
\* no event is returned more often than it was pushed, and whenever no
\* operation is in progress every pushed event is either still queued or
\* was returned by one pop, so the length is pushes minus returning pops.
C11_NoEventLostOrDuplicated ==
    /\ \A e \in QueueEvents : returned[e] <= pushed[e]
    /\ TasksQuiet =>
          /\ \A e \in QueueEvents :
                pushed[e] = returned[e] + CountIn(e, Events)
          /\ Len(Events) = SumOver(pushed, QueueEvents)
                           - SumOver(returned, QueueEvents)

C11_Witness ==
    /\ pc = "tasks"
    /\ TasksQuiet
    /\ SumOver(pushed, QueueEvents) >= 3
    /\ SumOver(returned, QueueEvents) >= 1
    /\ Len(Events) >= 1

\* C12: Pop and Peek on an empty queue return the empty sentinel and leave
\* the queue empty, and they are never blocked; Peek on a non-empty queue
\* returns an earliest event and leaves the queue as it was.
C12_EmptySentinelAndPeek ==
    /\ [](pc = "queue" => (ENABLED QueuePop /\ ENABLED QueuePeek))
    /\ [][(pc = "queue" /\ lastOp' \in {"pop", "peek"} /\ Events = <<>>)
          => (lastPopped' = Nil /\ Events' = <<>>)]_vars
    /\ [][(pc = "queue" /\ lastOp' = "peek" /\ Events # <<>>)
          => /\ Events' = Events
             /\ lastPopped' \in SeqToSet(Events)
             /\ \A i \in 1..Len(Events) :
                   lastPopped'.time <= Events[i].time]_vars

C12_Witness ==
    /\ pc = "queue"
    /\ lastOp = "peek"
    /\ lastPopped # Nil
    /\ Len(Events) >= 2
    /\ \E i \in 1..Len(Events) : lastPopped.time < Events[i].time

AnyPolicyFailed ==
    \/ firstErr # NoError
    \/ \E p \in policies : pending[p] # NoError

\* C13: once a policy's GenerateEvents has returned an error the Engine is
\* never run, whatever is in the queue: no event is applied, no interval is
\* integrated, and Run returns capacity 0 together with an error.
C13_PolicyErrorAbortsRun ==
    /\ AnyPolicyFailed =>
          /\ pc \in {"generate", "failed"}
          /\ applied = <<>>
          /\ windows = <<>>
          /\ totalCapacity = RZero
    /\ pc = "failed" => (firstErr # NoError /\ totalCapacity = RZero)
    /\ (pc = "generate" /\ Joined /\ AnyPolicyFailed) => ENABLED ReturnFirstErr

C13_Witness ==
    /\ pc = "failed"
    /\ Len(Events) >= 2
    /\ \E p \in policies : p \notin MaintenanceTasks

\* C14: the error Run returns is the one that reached the shared slot
\* first; an error recorded later never replaces it.
C14_FirstErrorWins ==
    /\ [](firstErr = (IF errors = <<>> THEN NoError ELSE errors[1]))
    /\ [][firstErr # NoError => firstErr' = firstErr]_vars

C14_Witness ==
    /\ pc = "failed"
    /\ Len(errors) = 2
    /\ errors[1] # errors[2]
    /\ firstErr = errors[1]

\* C15: Run neither returns nor starts the Engine before every policy task
\* has finished, also after one of them has failed; afterwards no policy
\* task takes a step, so only the Engine changes the queue.
C15_RunJoinsAllPolicies ==
    /\ [](pc # "generate" => \A p \in policies : PolicyDone(p))
    /\ [][pc # "generate" =>
             /\ policyDay' = policyDay
             /\ pending' = pending
             /\ firstErr' = firstErr]_vars
    /\ [][(pc = "generate" /\ pc' # "generate") => Events' = Events]_vars

C15_Witness ==
    /\ pc = "failed"
    /\ Len(errors) >= 1
    /\ \E p \in MaintenanceTasks \cap policies :
          /\ MissingRunways(schedule[p]) = <<>>
          /\ Len(MaintenanceWindows(schedule[p])) = 2
          /\ PolicyDone(p)
    /\ Len(Events) = 4

\* C16: when applying an event fails, Calculate returns the error with
\* capacity 0 and applies no later event; a maintenance event that names a
\* runway the World does not know fails.
C16_ApplyErrorAbortsRun ==
    /\ [](pc = "error" => totalCapacity = RZero)
    /\ [][pc = "error" => (pc' = "error" /\ applied' = applied
                           /\ Events' = Events /\ UNCHANGED worldVars)]_vars
    /\ [][(/\ pc = "loop"
           /\ HasNext(Events)
           /\ HeapPopped(Events).type \in {"RunwayMaintenanceStart",
                                           "RunwayMaintenanceEnd"}
           /\ HeapPopped(Events).runwayID \notin RunwayIDs
           /\ HeapPopped(Events).time >= StartTime
           /\ HeapPopped(Events).time <= EndTime)
          => (pc' = "error" /\ totalCapacity' = RZero /\ applied' = applied
              /\ UNCHANGED worldVars)]_vars

C16_Witness ==
    /\ pc = "error"
    /\ Len(applied) >= 1
    /\ Len(Events) >= 1

\* C17: a maintenance policy whose schedule names a runway that the airport
\* does not have returns an error from GenerateEvents without scheduling
\* any event, and the run is aborted.
C17_UnknownRunwayInPolicy ==
    /\ [][\A p \in MaintenanceTasks \cap policies :
             (/\ SeqToSet(schedule[p]) \ RunwayIDs # {}
              /\ policyDay'[p] # policyDay[p])
             => /\ Events' = Events
                /\ pending'[p] # NoError
                /\ policyDay'[p] > Len(MaintenanceWindows(schedule[p]))]_vars
    /\ [](\A p \in MaintenanceTasks \cap policies :
             SeqToSet(schedule[p]) \ RunwayIDs # {}
             => (pc \in {"generate", "failed"} /\ applied = <<>>))

C17_Witness ==
    /\ pc = "failed"
    /\ Events = <<>>
    /\ \E p \in policies : schedule[p] = <<"18", UnknownRunway>>

\* C18: a run over a compatibility graph that fails validation is rejected
\* before any event is processed: the Engine is never started.
C18_InvalidGraphRejected ==
    ~Validate(RunwayManager.compatibility, RunwayIDs)
    => (pc \in {"generate", "failed"} /\ applied = <<>>)

\* C19: policy generation changes nothing in the World but the event
\* queue.
C19_PoliciesOnlyScheduleEvents ==
    [][pc = "generate" /\ pc' = "generate" => UNCHANGED worldVars]_vars

\* C20: while the selector's curfew flag is set its active configuration
\* is empty whatever notification arrives, and an empty configuration
\* under curfew becomes non-empty only by a notification that clears the
\* curfew.
C20_CurfewConfigurationEmpty ==
    /\ [](RunwayManager.curfewActive =>
             ActiveIDs(GetActiveConfiguration(RunwayManager)) = {})
    /\ [][(/\ RunwayManager.curfewActive
           /\ ActiveIDs(GetActiveConfiguration(RunwayManager')) # {})
          => (lastOp' = "OnCurfewChanged"
              /\ ~RunwayManager'.curfewActive)]_vars

C20_Witness ==
    /\ pc = "selector"
    /\ RunwayManager.curfewActive
    /\ lastOp = "OnWindChanged"
    /\ RunwayManager.windSpeed = 5
    /\ \E r \in RunwayIDs : RunwayManager.availableRunways[r]
    /\ \E r \in RunwayIDs : ~RunwayManager.availableRunways[r]

\* ------------------------------------------------ the selector's choice
Inventory(rm) == SeqToSet(getAllRunwayIDs(rm))
Active(rm) == ActiveIDs(GetActiveConfiguration(rm))

\* the runways that are marked available and usable under the wind
Selectable(rm) ==
    filterRunwaysByWind(rm, getAvailableRunwayIDs(rm)) \cap Inventory(rm)

MutuallyCompatible(rm, S) ==
    \A a \in S, b \in S : IsCompatible(rm.compatibility, a, b)

\* summed throughput of a set of runways over the reference duration
RECURSIVE Throughput(_, _)
Throughput(rm, S) ==
    IF S = {} THEN RZero
    ELSE LET r == CHOOSE x \in S : TRUE
             separation == findRunwayByID(rm, r).MinimumSeparation
         IN RAdd(IF separation > 0
                 THEN Rat(ReferenceDurationSeconds, separation) ELSE RZero,
                 Throughput(rm, S \ {r}))

\* C21: every runway of the active configuration is a runway of the
\* inventory that is marked available, and every two runways of it are
\* compatible under the compatibility graph.
C21_ActiveConfigurationIsValid ==
    /\ Active(RunwayManager) \subseteq Inventory(RunwayManager)
    /\ Active(RunwayManager) \subseteq getAvailableRunwayIDs(RunwayManager)
    /\ MutuallyCompatible(RunwayManager, Active(RunwayManager))

\* C22: outside a curfew no set of mutually compatible runways that are
\* available and usable under the wind has a greater summed throughput
\* than the active configuration.
C22_MaximumThroughputSelected ==
    ~RunwayManager.curfewActive =>
        \A S \in SUBSET Selectable(RunwayManager) :
            MutuallyCompatible(RunwayManager, S) =>
                ~RLt(Throughput(RunwayManager, Active(RunwayManager)),
                     Throughput(RunwayManager, S))

\* the cliques of a clique list that lie within the selectable runways,
\* and those among them of the greatest summed throughput
Eligible(rm, cliques) ==
    {i \in 1..Len(cliques) : isSubset(cliques[i], Selectable(rm))}
Greatest(rm, cliques) ==
    {i \in Eligible(rm, cliques) :
        \A j \in Eligible(rm, cliques) :
            ~RLt(Throughput(rm, SeqToSet(cliques[i])),
                 Throughput(rm, SeqToSet(cliques[j])))}
FewestOfGreatest(rm, cliques) ==
    {SeqToSet(cliques[i]) : i \in
        {k \in Greatest(rm, cliques) :
            \A j \in Greatest(rm, cliques) :
                Len(cliques[k]) <= Len(cliques[j])}}
TieOfSizes(rm, cliques) ==
    \E i \in Greatest(rm, cliques), j \in Greatest(rm, cliques) :
        Len(cliques[i]) # Len(cliques[j])
Reordered(cliques) ==
    {[i \in 1..Len(cliques) |-> cliques[f[i]]] :
        f \in Permutations(1..Len(cliques))}
Selecting(rm) ==
    /\ ~rm.curfewActive
    /\ ~rm.compatibility.isNil
    /\ rm.maximalCliquesComputed

\* C23: when eligible cliques of different sizes reach the greatest summed
\* throughput, the active configuration is one of the smallest of them, in
\* whatever order the cliques are enumerated.
C23_TiePrefersFewerRunways ==
    (Selecting(RunwayManager)
     /\ TieOfSizes(RunwayManager, RunwayManager.maximalCliques)) =>
        /\ Active(RunwayManager) \in
               FewestOfGreatest(RunwayManager, RunwayManager.maximalCliques)
        /\ \A cliques \in Reordered(RunwayManager.maximalCliques) :
               SeqToSet(selectLoop(RunwayManager, cliques, 1,
                                   Selectable(RunwayManager), <<>>, RZero))
               \in FewestOfGreatest(RunwayManager, cliques)

\* the maximal cliques of the compatibility relation over the inventory
MaximalCliquesOf(rm) ==
    {S \in SUBSET Inventory(rm) :
        /\ S # {}
        /\ MutuallyCompatible(rm, S)
        /\ \A r \in Inventory(rm) \ S : ~MutuallyCompatible(rm, S \cup {r})}

\* C24: for a graph that passes validation the clique computation ends
\* with a list that holds every maximal clique of the graph once and
\* nothing else.
C24_CliquesAreTheMaximalCliques ==
    Validate(RunwayManager.compatibility, RunwayIDs) =>
        /\ ~RunwayManager.fatal
        /\ probe.op = "computeMaximalCliques" =>
               RunwayManager.maximalCliquesComputed
        /\ RunwayManager.maximalCliquesComputed =>
               LET cliques == RunwayManager.maximalCliques
               IN /\ {SeqToSet(cliques[i]) : i \in 1..Len(cliques)}
                        = MaximalCliquesOf(RunwayManager)
                  /\ \A i \in 1..Len(cliques), j \in 1..Len(cliques) :
                        SeqToSet(cliques[i]) = SeqToSet(cliques[j]) => i = j

\* C27: on a graph that Validate accepts IsCompatible gives the same
\* answer for (a, b) and (b, a), and TRUE for (a, a).
C27_IsCompatibleSymmetricReflexive ==
    (/\ probe.op = "IsCompatible"
     /\ Validate(RunwayManager.compatibility, RunwayIDs)) =>
        /\ probe.result = IsCompatible(RunwayManager.compatibility,
                                       probe.runway2, probe.runway1)
        /\ probe.runway1 = probe.runway2 => probe.result

C27_Witness ==
    /\ probe.op = "IsCompatible"
    /\ probe.result
    /\ probe.runway1 # probe.runway2
    /\ ~NoCompatibleWith(RunwayManager.compatibility)
    /\ Validate(RunwayManager.compatibility, RunwayIDs)
    /\ ~IsCompatible(RunwayManager.compatibility, probe.runway1, "18")

\* what the specification asks of a graph: keys and references are
\* runways of the airport, references to another runway are reciprocated,
\* every runway has an entry
WellFormed(g, runwayIDs) ==
    /\ DOMAIN g \subseteq runwayIDs
    /\ \A a \in DOMAIN g : SeqToSet(g[a]) \subseteq runwayIDs
    /\ \A a \in DOMAIN g : \A b \in SeqToSet(g[a]) :
          a # b => (b \in DOMAIN g /\ a \in SeqToSet(g[b]))
    /\ runwayIDs \subseteq DOMAIN g

\* C28: Validate returns no error exactly when the graph is absent or well
\* formed, and a call of Validate leaves the graph as it was.
C28_ValidateAcceptsWellFormedGraphs ==
    /\ [](probe.op = "Validate" =>
             (probe.result <=>
                 \/ NoCompatibleWith(RunwayManager.compatibility)
                 \/ WellFormed(RunwayManager.compatibility.CompatibleWith,
                               RunwayIDs)))
    /\ [][probe'.op = "Validate" =>
             RunwayManager'.compatibility = RunwayManager.compatibility]_vars

C28_Witness ==
    /\ probe.op = "Validate"
    /\ ~probe.result
    /\ RunwayManager.compatibility = Compatibility("missing")

Calm(rm) == rm.windSpeed = 0

\* C29: without a compatibility graph, in calm wind and outside a curfew,
\* the active configuration is the set of inventory runways marked
\* available; marking a runway unavailable and available again gives the
\* configuration back.
C29_NoGraphActivatesAvailableRunways ==
    (/\ RunwayManager.compatibility.isNil
     /\ Calm(RunwayManager)
     /\ ~RunwayManager.curfewActive) =>
        /\ Active(RunwayManager) =
               Inventory(RunwayManager)
               \cap getAvailableRunwayIDs(RunwayManager)
        /\ \A r \in getAvailableRunwayIDs(RunwayManager) :
               GetActiveConfiguration(
                   OnRunwayAvailable(
                       OnRunwayUnavailable(RunwayManager, r), r))
               = GetActiveConfiguration(RunwayManager)

C29_Witness ==
    /\ RunwayManager.compatibility.isNil
    /\ Calm(RunwayManager)
    /\ ~RunwayManager.curfewActive
    /\ lastOp = "OnRunwayAvailable"
    /\ UnknownRunway \in getAvailableRunwayIDs(RunwayManager)
    /\ Active(RunwayManager) = {"09L", "18"}

\* a direction is within the limits of a runway: a limit of 0 is no limit
WithinLimits(rm, runway, bearing) ==
    LET w == CalculateWindComponents(bearing, rm.windSpeed, rm.windDirection)
    IN /\ \/ runway.CrosswindLimitKnots = 0
          \/ w.crosswind <= runway.CrosswindLimitKnots
       /\ \/ runway.TailwindLimitKnots = 0
          \/ -w.headwind <= runway.TailwindLimitKnots
Reciprocal(bearing) == (bearing + 180) % 360
UsableInSomeDirection(rm, r) ==
    \/ WithinLimits(rm, findRunwayByID(rm, r), findRunwayByID(rm, r).TrueBearing)
    \/ WithinLimits(rm, findRunwayByID(rm, r),
                    Reciprocal(findRunwayByID(rm, r).TrueBearing))

\* C30: in wind an available runway passes the wind filter exactly when
\* one of its two directions is within its crosswind and tailwind limits,
\* and a runway unusable in both directions is not active.
C30_WindFilterKeepsUsableRunways ==
    ~Calm(RunwayManager) =>
        /\ \A r \in Inventory(RunwayManager)
                    \cap getAvailableRunwayIDs(RunwayManager) :
               r \in filterRunwaysByWind(RunwayManager,
                         getAvailableRunwayIDs(RunwayManager))
               <=> UsableInSomeDirection(RunwayManager, r)
        /\ \A r \in Inventory(RunwayManager) :
               ~UsableInSomeDirection(RunwayManager, r)
               => r \notin Active(RunwayManager)

C30_Witness ==
    /\ RunwayManager.windSpeed = 40
    /\ RunwayManager.windDirection = 270
    /\ RunwayManager.compatibility.isNil
    /\ RunwayManager.allRunways = Runways
    /\ GetActiveConfiguration(RunwayManager)["09L"] = "Reverse"
    /\ "18" \in getAvailableRunwayIDs(RunwayManager)
    /\ "18" \notin Active(RunwayManager)

\* C25: a configuration GetActiveConfiguration copies is the result of the
\* last completed notification (or of construction), never one that a
\* notification in progress has cleared or partly rebuilt.
C25_ReadersSeeCompleteConfigurations ==
    \A t \in SelectorTasks :
        rmLocal[t].step = "copied" =>
            /\ rmLocal[t].config = completed[Len(completed)]
            /\ \E i \in 1..Len(completed) : rmLocal[t].config = completed[i]

C25_Witness ==
    \E t \in SelectorTasks, u \in SelectorTasks :
        /\ t # u
        /\ rmLocal[t].step = "copied"
        /\ rmLocal[u].step = "rlocked"
        /\ Len(completed) = 3
        /\ rmLocal[t].config = completed[3]
        /\ rmLocal[t].config # completed[1]
        /\ rmLocal[t].config # completed[2]
        /\ ActiveIDs(rmLocal[t].config) # {}

NotifyingTypes ==
    {"CurfewStart", "CurfewEnd", "RunwayMaintenanceStart",
     "RunwayMaintenanceEnd"}
\* the manager after the notification that applying evt sends
Notified(rm, evt) ==
    CASE evt.type = "CurfewStart" -> OnCurfewChanged(rm, TRUE)
      [] evt.type = "CurfewEnd" -> OnCurfewChanged(rm, FALSE)
      [] evt.type = "RunwayMaintenanceStart" ->
             OnRunwayUnavailable(rm, evt.runwayID)
      [] evt.type = "RunwayMaintenanceEnd" ->
             OnRunwayAvailable(rm, evt.runwayID)
      [] OTHER -> rm
JustApplied(evt) == applied' = Append(applied, evt)

\* C31: a call of NotifyRunwayAvailabilityChange or NotifyCurfewChange
\* makes the selector recompute and adds one configuration-changed event
\* to the queue, with the timestamp passed in and the configuration the
\* selector has after the recomputation; nothing else enters the queue.
C31_NotifyEnqueuesOneSnapshot ==
    [][\A evt \in {e \in CandidateEvents : HasNext(Events)
                                           /\ e = HeapPopped(Events)} :
          (JustApplied(evt) /\ evt.type \in NotifyingTypes) =>
             LET rest == HeapPop(Events)
                 followUp ==
                     NewActiveRunwayConfigurationChangedEvent(
                         GetActiveConfiguration(RunwayManager'), evt.time)
             IN /\ RunwayManager' = Notified(RunwayManager, evt)
                /\ Len(Events') = Len(rest) + 1
                /\ \A e \in SeqToSet(Events') \cup SeqToSet(rest) :
                       CountIn(e, Events') =
                           CountIn(e, rest) + (IF e = followUp THEN 1 ELSE 0)]_vars

C31_Witness ==
    /\ pc = "loop"
    /\ Len(applied) = 1
    /\ applied[1].type = "RunwayMaintenanceStart"
    /\ \E i \in 1..Len(Events) :
           /\ Events[i].type = "ActiveRunwayConfigurationChanged"
           /\ Events[i].time = applied[1].time
           /\ Events[i].config = GetActiveConfiguration(RunwayManager)
           /\ ActiveIDs(Events[i].config) = {"09L", "09R"}
    /\ ActiveIDs(ActiveRunwayConfiguration) # {"09L", "09R"}

FailingSetters ==
    {"SetRunwayAvailable", "SetGateCapacityConstraint", "SetTaxiTimeOverhead"}

\* C33: a World setter that returns an error has changed no field of the
\* World; it returns one for a negative gate ceiling, a negative taxi
\* overhead and a runway id the World does not know, and only then.
C33_FailedSetterChangesNothing ==
    /\ [][(probe'.op \in FailingSetters /\ probe'.result) =>
             UNCHANGED worldVars]_vars
    /\ [](probe.op = "SetRunwayAvailable" =>
             (probe.result <=> probe.runway1 \notin RunwayIDs))
    /\ [](probe.op \in {"SetGateCapacityConstraint", "SetTaxiTimeOverhead"}
          /\ ~probe.result =>
             /\ ~RLt(GateCapacityConstraint, RZero)
             /\ TaxiTimeOverhead >= 0)

C33_Witness ==
    /\ probe.op = "SetGateCapacityConstraint"
    /\ probe.result
    /\ GateCapacityConstraint = GateRate
    /\ TaxiTimeOverhead = TaxiOverheadSeconds
    /\ ~RunwayStates["18"]

InUnitInterval(m) == ~RLt(m, RZero) /\ ~RLt(ROne, m)
\* the capacity of a window from its runways alone
RunwayDerived(win) ==
    IF win.world.curfew THEN RZero
    ELSE SumRunwayCapacity(win.world, allRunways,
                           Seconds(win.end - win.start))

\* C34: after any sequence of applied events the rotation multiplier is
\* between 0 and 1, so that no window's capacity is negative or above what
\* its runways give.
C34_RotationMultiplierInUnitInterval ==
    /\ InUnitInterval(RotationMultiplier)
    /\ \A i \in 1..Len(windows) :
           /\ ~RLt(windows[i].capacity, RZero)
           /\ ~RLt(RunwayDerived(windows[i]), windows[i].capacity)

\* neither before the start nor after the end of the simulated period
InWindow(t) == ~IsBeforeStart(t) /\ ~IsAfterEnd(t)

\* C32: an event is applied when it is popped and then it is gone from the
\* queue, so none is applied twice; an event inside the window leaves the
\* queue only by being applied, and when a run has returned without error
\* no event inside the window is left in the queue.
C32_EachEventAppliedOnce ==
    /\ [][applied' # applied =>
             (/\ HasNext(Events)
              /\ applied' = Append(applied, HeapPopped(Events))
              /\ CountIn(HeapPopped(Events), Events') =
                     CountIn(HeapPopped(Events), Events) - 1)]_vars
    /\ [][pc' # "error" =>
             (\A e \in SeqToSet(Events) :
                 InWindow(e.time) =>
                     CountIn(e, Events') >=
                         CountIn(e, Events)
                         - (IF applied' = Append(applied, e) THEN 1 ELSE 0))]_vars
    /\ [](pc = "done" =>
             \A i \in 1..Len(Events) : ~InWindow(Events[i].time))

C32_Witness ==
    /\ pc = "done"
    /\ Len(applied) = 4
    /\ skipped = 0
    /\ Events = <<>>
    /\ applied[1].time < applied[3].time
    /\ applied[2].type = "ActiveRunwayConfigurationChanged"
    /\ applied[4].type = "ActiveRunwayConfigurationChanged"

\* positions in the applied events of the configuration-changed events
ConfigurationChanges ==
    {i \in 1..Len(applied) :
        applied[i].type = "ActiveRunwayConfigurationChanged"}
LastConfigurationChange ==
    CHOOSE i \in ConfigurationChanges : \A j \in ConfigurationChanges : j <= i

C36_CliqueEnumerationTerminates ==
    Validate(RunwayManager.compatibility, RunwayIDs) =>
        /\ ~RunwayManager.fatal
        /\ \A i \in 1..Len(RunwayManager.maximalCliques) :
               LET clique == RunwayManager.maximalCliques[i]
               IN /\ Len(clique) <= Len(RunwayManager.allRunways)
                  /\ Cardinality(SeqToSet(clique)) = Len(clique)

\* C37: outside a curfew, on every graph that Validate accepts and after
\* any notifications, the active configuration holds a runway whenever a
\* runway of the inventory with a positive throughput is marked available
\* and is usable under the wind.
C37_UsableRunwayGivesConfiguration ==
    (/\ ~RunwayManager.curfewActive
     /\ Validate(RunwayManager.compatibility, Inventory(RunwayManager))
     /\ \E r \in Selectable(RunwayManager) :
            findRunwayByID(RunwayManager, r).MinimumSeparation > 0) =>
        Active(RunwayManager) # {}

\* Calculate has just entered its loop with n events in the queue
Started(n) ==
    /\ pc = "loop"
    /\ applied = <<>>
    /\ skipped = 0
    /\ Len(Events) = n
Returned35 == pc \in {"done", "error"}

\* C35: Calculate returns for every queue it starts with.  An event that
\* makes the selector recompute adds one follow-up with its own
\* timestamp, applying a follow-up adds nothing, and the events applied
\* are never more than twice the events queued when Calculate started.
C35_CalculateTerminates ==
    /\ (pc = "loop") ~> Returned35
    /\ [](\A n \in 0..MaxEvents :
             Started(n) => [](Len(applied) <= 2 * n))
    /\ [][\A evt \in {e \in SeqToSet(Events) : e = HeapPopped(Events)} :
             JustApplied(evt) =>
                 IF evt.type \in NotifyingTypes
                 THEN /\ Len(Events') = Len(Events)
                      /\ \E i \in 1..Len(Events') :
                             /\ Events'[i].type =
                                    "ActiveRunwayConfigurationChanged"
                             /\ Events'[i].time = evt.time
                             /\ CountIn(Events'[i], Events') =
                                    CountIn(Events'[i], Events) + 1
                 ELSE /\ Len(Events') = Len(Events) - 1
                      /\ \A e \in SeqToSet(Events') :
                             CountIn(e, Events') <= CountIn(e, Events)]_vars

C35_Witness ==
    /\ pc = "done"
    /\ Len(applied) = 2 * MaxEvents
    /\ skipped = 0
    /\ Events = <<>>

\* a task that waits for a lock
WaitsForSelector(t) == rmLocal[t].step = "recomputed"
WaitsForQueue(t) == rmLocal[t].step = "copied"

\* C40: with queue operations, notifications and configuration reads
\* interleaved in any way every call returns.  No task holds the queue's
\* lock and the selector's lock together or waits for one while it holds
\* the other, a notification has released the selector's lock before it
\* pushes, and while a call is in progress some task can take a step.
C40_EveryCallReturns ==
    /\ \A t \in LockTasks : InCall(t) ~> ~InCall(t)
    /\ [](\A t \in LockTasks :
             /\ ~(HoldsQueue(t) /\ HoldsSelector(t))
             /\ WaitsForQueue(t) => ~HoldsSelector(t)
             /\ WaitsForSelector(t) => ~HoldsQueue(t)
             /\ ~InCall(t) => ~HoldsQueue(t) /\ ~HoldsSelector(t))
    /\ []((\E t \in LockTasks : InCall(t)) =>
             \E t \in LockTasks : InCall(t) /\ CanContinue(t))

C40_Witness ==
    /\ pc = "locks"
    /\ \E t \in LockTasks, u \in LockTasks :
           /\ rmLocal[t].op = "NotifyCurfewChange"
           /\ WaitsForQueue(t)
           /\ HoldsQueue(u)
           /\ rmLocal[u].op = "Pop"
    /\ HasNext(Events)
    /\ lastOp = "Lock"

\* the World fields a run starts with
InitialSnapshot ==
    [WorldSnapshot EXCEPT !.curfew = FALSE,
                          !.available = [r \in RunwayIDs |-> TRUE],
                          !.rotation = ROne,
                          !.gate = RZero,
                          !.taxi = 0]
\* the total of a run that applies the events of seq in their order
RECURSIVE TotalOf(_, _, _, _)
TotalOf(seq, i, w, previous) ==
    IF i > Len(seq)
    THEN IF previous < EndTime
         THEN calculateWindowCapacity(w, EndTime - previous)
         ELSE RZero
    ELSE RAdd(calculateWindowCapacity(w, seq[i].time - previous),
              TotalOf(seq, i + 1, EffectOf(seq[i], w), seq[i].time))
\* seq with the events at i and i + 1 exchanged
Exchanged(seq, i) ==
    [k \in 1..Len(seq) |->
        IF k = i THEN seq[i + 1] ELSE IF k = i + 1 THEN seq[i] ELSE seq[k]]
EqualTimestamps ==
    {i \in 1..(Len(applied) - 1) : applied[i].time = applied[i + 1].time}

\* C38: with the airport and the policies fixed, the total that Run
\* returns is the same however the policy tasks interleave: it is the
\* total of the events in the order they were applied, and it stays the
\* same when two events of one timestamp are popped in the other order.
C38_TotalIndependentOfInterleaving ==
    pc = "done" =>
        /\ totalCapacity = TotalOf(applied, 1, InitialSnapshot, StartTime)
        /\ \A i \in EqualTimestamps :
               TotalOf(Exchanged(applied, i), 1, InitialSnapshot, StartTime)
                   = totalCapacity

====
